---- MODULE Spec2Model ----
(***************************************************************************)
(* Model of the two pieces of algorithmic logic of db-context-enrichment:  *)
(*   - parameterize_sql_and_intent (src/mcp/template/parameterizer.py)     *)
(*   - get_match_template / get_available_functions                        *)
(*     (src/mcp/value_search/match_templates.py)                           *)
(* A string is a sequence of one-character strings.                        *)
(***************************************************************************)
EXTENDS Integers, Sequences, FiniteSets, TLC

VARIABLES
    \* ---- parameterize_sql_and_intent: arguments
    value_phrases,   \* keys of the dict, in insertion order
    sql,
    intent,
    db_dialect,
    \* ---- parameterize_sql_and_intent: locals
    psql,
    pintent,
    param_index,
    sorted_phrases,
    idx,             \* position of the for loop in sorted_phrases
    pc,              \* "call" | "loop" | "done"
    result,          \* the returned dict, NoResult before the return
    \* ---- the caller's record of the run
    calls,           \* number of calls entered so far
    first_call,      \* arguments and result of the first call
    assigned,        \* phrase, placeholder and condition of every phrase substituted in this call
    \* ---- value_search/match_templates.py
    MATCH_CONFIG,    \* the registry _MATCH_CONFIG: Dialect member -> configuration
    patched,         \* a test holds the registry replaced (patch.dict(..., clear=True))
    restored,        \* the registry was put back in place since it was last replaced
    request,         \* the last call of the resolver
    outcome,         \* what that call returned or raised
    \* ---- facet_generator.py / fragment_generator.py: one item of the loop
    question,
    manifest,
    manifest_phrases, \* sorted_phrases of the generator
    midx,            \* position of the manifest loop
    mpc,             \* "none" | "item" | "manifest" | "assembled"
    replaced,        \* what every iteration of the manifest loop did
    \* ---- several callers at once
    frames,          \* caller -> the call it is in: arguments, locals, result
    \* ---- value_search/generator.py: generate_value_searches
    inputs,          \* the items of the JSON list
    db_engine,
    db_version,
    item_index,      \* position of the for loop in inputs
    value_searches,  \* the list built so far
    spc,             \* "none" | "loop" | "returned"
    returned,        \* what generate_value_searches returned
    \* ---- main.py: attach_context_set
    file,            \* the JSON document stored at file_path
    original,        \* the document the file held before the first call
    attached,        \* the ContextSets given to the calls so far, in call order
    attach_result,   \* what the last call returned or raised
    \* ---- value_index/match_templates.py
    MATCH_TEMPLATES, \* the registry: Dialect member -> version -> templates
    index_request,   \* the last call of the value-index resolver
    index_outcome,   \* what that call returned or raised
    \* ---- the tools that call the generative model
    tool,            \* the coroutine that is running
    tpc,             \* its position
    response,        \* what generate_content gave
    client,          \* the genai.Client of the running coroutine
    released         \* the clients of the coroutines that have ended

pvars == <<value_phrases, sql, intent, db_dialect, psql, pintent, param_index,
           sorted_phrases, idx, pc, result, calls, first_call, assigned>>

rvars == <<MATCH_CONFIG, patched, restored, request, outcome>>

gvars == <<question, manifest, manifest_phrases, midx, mpc, replaced>>

cvars == <<frames>>

svars == <<inputs, db_engine, db_version, item_index, value_searches, spc, returned>>

avars == <<file, original, attached, attach_result>>

ivars == <<MATCH_TEMPLATES, index_request, index_outcome>>

kvars == <<tool, tpc, response, client, released>>

\* the variables of the other tools
ovars == <<avars, ivars, kvars>>

\* the variables outside the parameterizer and the registry
xvars == <<gvars, cvars, svars, ovars>>

vars == <<pvars, rvars, xvars>>

(***************************************************************************)
(* Bounds of the model.                                                    *)
(***************************************************************************)
MaxPhrases == 2      \* keys in a PhraseSet
MaxCalls == 2        \* calls of parameterize_sql_and_intent chained on its own output
MaxCallers == 2      \* callers at work at the same time
MaxItems == 2        \* items in the list given to generate_value_searches
MaxAttach == 2       \* calls of attach_context_set on one file
MaxCoroutines == 2   \* coroutines run one after the other

(***************************************************************************)
(* Characters and strings.                                                 *)
(***************************************************************************)
Letters == {"a", "b"}
DigitChars == {"0", "1", "2", "3", "4", "5", "6", "7", "8", "9"}

\* \w of Python's re on str patterns: alphanumerics (and underscore)
IsWordChar(c) == c \in Letters \cup DigitChars

DigitChar(d) ==
    CASE d = 0 -> "0" [] d = 1 -> "1" [] d = 2 -> "2" [] d = 3 -> "3" [] d = 4 -> "4"
      [] d = 5 -> "5" [] d = 6 -> "6" [] d = 7 -> "7" [] d = 8 -> "8" [] d = 9 -> "9"

\* str(n) of a non-negative integer, as used by the f-string f"${param_index}"
RECURSIVE IntToStr(_)
IntToStr(n) ==
    IF n < 10 THEN <<DigitChar(n)>>
    ELSE IntToStr(n \div 10) \o <<DigitChar(n % 10)>>

(***************************************************************************)
(* class SQLDialect                                                        *)
(***************************************************************************)
POSTGRESQL == "postgresql"
MYSQL == "mysql"
GOOGLESQL == "googlesql"
SQLDialect == {POSTGRESQL, MYSQL, GOOGLESQL}

(***************************************************************************)
(* Regular expressions of parameterize_sql_and_intent.  A pattern is the   *)
(* literal it matches plus whether it is wrapped in \b ... \b; both        *)
(* patterns start with the negative lookbehind (?<!\$).                    *)
(***************************************************************************)
search_phrase_quoted(value) == <<"'">> \o value \o <<"'">>

quoted_pattern(value) == [lit |-> search_phrase_quoted(value), wb |-> FALSE]

unquoted_pattern(value) == [lit |-> value, wb |-> TRUE]

\* \b at the gap after the first g characters of t (0 <= g <= Len(t))
WordBoundary(t, g) ==
    LET before == g >= 1 /\ IsWordChar(t[g])
        after == g + 1 <= Len(t) /\ IsWordChar(t[g + 1])
    IN  before # after

\* (?<!\$) at the gap before position i
NotAfterDollar(t, i) == i = 1 \/ t[i - 1] # "$"

\* the pattern matches t at position i (1-based)
MatchAt(pat, t, i) ==
    /\ i >= 1
    /\ i + Len(pat.lit) - 1 <= Len(t)
    /\ NotAfterDollar(t, i)
    /\ \A k \in 1..Len(pat.lit) : t[i + k - 1] = pat.lit[k]
    /\ pat.wb => (WordBoundary(t, i - 1) /\ WordBoundary(t, i - 1 + Len(pat.lit)))

\* pattern.search(t) is not None
Search(pat, t) == \E i \in 1..Len(t) : MatchAt(pat, t, i)

\* mutant: the character that follows a match is taken with it
RECURSIVE SubFrom_Greedy(_, _, _, _)
SubFrom_Greedy(pat, repl, t, i) ==
    IF i > Len(t) THEN <<>>
    ELSE IF MatchAt(pat, t, i) THEN repl \o SubFrom_Greedy(pat, repl, t, i + Len(pat.lit) + 1)
    ELSE <<t[i]>> \o SubFrom_Greedy(pat, repl, t, i + 1)

\* pattern.sub(repl, t): leftmost non-overlapping matches, scanned from position i
RECURSIVE SubFrom(_, _, _, _)
SubFrom(pat, repl, t, i) ==
    IF i > Len(t) THEN <<>>
    ELSE IF MatchAt(pat, t, i) THEN repl \o SubFrom(pat, repl, t, i + Len(pat.lit))
    ELSE <<t[i]>> \o SubFrom(pat, repl, t, i + 1)

Sub(pat, repl, t) == SubFrom(pat, repl, t, 1)

(***************************************************************************)
(* sorted(value_phrases.keys(), key=len, reverse=True): a stable sort, so  *)
(* keys of equal length keep their dict order.                             *)
(***************************************************************************)
\* mutant: an unstable sort, keys of equal length come out in reverse dict order
InsertByLen_Unstable(s, x) ==
    LET longer == { k \in DOMAIN s : Len(s[k]) > Len(x) }
        n == Cardinality(longer)
    IN  SubSeq(s, 1, n) \o <<x>> \o SubSeq(s, n + 1, Len(s))

RECURSIVE InsertByLen(_, _)
InsertByLen(s, x) ==
    IF s = <<>> THEN <<x>>
    ELSE IF Len(Head(s)) >= Len(x) THEN <<Head(s)>> \o InsertByLen(Tail(s), x)
    ELSE <<x>> \o s

\* mutant: the keys are not sorted, they are taken in dict order
SortedByLenDesc_KeyOrder(keys) == keys

RECURSIVE SortedByLenDesc(_)
SortedByLenDesc(keys) ==
    IF keys = <<>> THEN <<>>
    ELSE InsertByLen(SortedByLenDesc(SubSeq(keys, 1, Len(keys) - 1)), keys[Len(keys)])

\* mutant: the counter is not written into the placeholder
Placeholder_Unnumbered(dialect, n) ==
    IF dialect = POSTGRESQL THEN <<"$", "1">> ELSE <<"?">>

\* mutant: every dialect gets the positional syntax
Placeholder_AlwaysPositional(dialect, n) == <<"$">> \o IntToStr(n)

\* the placeholder of one loop iteration
Placeholder(dialect, n) ==
    IF dialect = POSTGRESQL THEN <<"$">> \o IntToStr(n) ELSE <<"?">>

\* mutant: the last condition is satisfied by a match in either string
Condition_EitherSide(value, s, t) ==
    LET q == quoted_pattern(value)
        u == unquoted_pattern(value)
    IN  IF Search(q, s) /\ Search(q, t) THEN 1
        ELSE IF Search(q, s) /\ Search(u, t) THEN 2
        ELSE IF Search(u, s) /\ Search(q, t) THEN 3
        ELSE IF Search(u, s) \/ Search(u, t) THEN 4
        ELSE 0

\* mutant: the chain is written in the reverse order, both-unquoted first
Condition_Reversed(value, s, t) ==
    LET q == quoted_pattern(value)
        u == unquoted_pattern(value)
    IN  IF Search(u, s) /\ Search(u, t) THEN 4
        ELSE IF Search(u, s) /\ Search(q, t) THEN 3
        ELSE IF Search(q, s) /\ Search(u, t) THEN 2
        ELSE IF Search(q, s) /\ Search(q, t) THEN 1
        ELSE 0

\* mutant: the second condition looks at the sql only
Condition_SqlOnly(value, s, t) ==
    LET q == quoted_pattern(value)
        u == unquoted_pattern(value)
    IN  IF Search(q, s) /\ Search(q, t) THEN 1
        ELSE IF Search(q, s) THEN 2
        ELSE IF Search(u, s) /\ Search(q, t) THEN 3
        ELSE IF Search(u, s) /\ Search(u, t) THEN 4
        ELSE 0

\* which of the four conditions of the if/elif chain is taken for value (0: none)
Condition(value, s, t) ==
    LET q == quoted_pattern(value)
        u == unquoted_pattern(value)
    IN  IF Search(q, s) /\ Search(q, t) THEN 1
        ELSE IF Search(q, s) /\ Search(u, t) THEN 2
        ELSE IF Search(u, s) /\ Search(q, t) THEN 3
        ELSE IF Search(u, s) /\ Search(u, t) THEN 4
        ELSE 0

\* the pattern applied to the sql / to the intent under each condition
SqlPattern(c, value) == IF c \in {1, 2} THEN quoted_pattern(value) ELSE unquoted_pattern(value)
IntentPattern(c, value) == IF c \in {1, 3} THEN quoted_pattern(value) ELSE unquoted_pattern(value)

(***************************************************************************)
(* Inputs.                                                                 *)
(***************************************************************************)
AA == <<"a", "a">>
BB == <<"b", "b">>
SP == <<" ">>
D1 == <<"$", "1">>

\* the keys a PhraseSet is drawn from: two words of equal length, a longer phrase
\* that contains one of them, and a currency amount
PhrasePool == { AA, BB, AA \o SP \o BB, D1 }

SqlAtoms == { AA, BB, search_phrase_quoted(AA), search_phrase_quoted(AA \o SP \o BB), D1 }
IntentAtoms == { AA, BB, search_phrase_quoted(AA) }
Joiners == { <<>>, SP }

\* a text is empty, one atom, or two atoms written side by side or with a space
TextsOf(atoms) ==
    {<<>>} \cup atoms \cup { x \o j \o y : x \in atoms, j \in Joiners, y \in atoms }

SqlTexts == TextsOf(SqlAtoms)
IntentTexts == TextsOf(IntentAtoms)

IsInjective(s) == \A i, j \in DOMAIN s : i # j => s[i] # s[j]

PhraseLists ==
    { s \in UNION { [1..n -> PhrasePool] : n \in 0..MaxPhrases } : IsInjective(s) }

NoResult == [sql |-> <<"-">>, intent |-> <<"-">>, none |-> TRUE]
NoCall == [none |-> TRUE]

(***************************************************************************)
(* value_search/match_templates.py: dicts.  A dict is the sequence of its  *)
(* <<key, value>> items in insertion order.                                *)
(***************************************************************************)
None == <<"<None>">>
EmptyDict == <<>>

\* mutant: the keys come out in reverse order
DictKeys_Reversed(d) == [i \in DOMAIN d |-> d[Len(d) + 1 - i][1]]

DictKeys(d) == [i \in DOMAIN d |-> d[i][1]]

DictHas(d, k) == \E i \in DOMAIN d : d[i][1] = k

\* d.get(k, default)
DictGet(d, k, default) ==
    IF DictHas(d, k) THEN d[CHOOSE i \in DOMAIN d : d[i][1] = k][2] ELSE default

\* mutant: the merge adds no key to those of a
NewItems_None(a, b) == <<>>

\* the items of b whose key is not in a, in b's order
RECURSIVE NewItems(_, _)
NewItems(a, b) ==
    IF b = <<>> THEN <<>>
    ELSE IF DictHas(a, Head(b)[1]) THEN NewItems(a, Tail(b))
    ELSE <<Head(b)>> \o NewItems(a, Tail(b))

\* mutant: the overrides of the version replace the defaults instead of shadowing them
DictMerge_Replace(a, b) == IF b = <<>> THEN a ELSE b

\* mutant: the merge is written the wrong way round, the defaults shadow the overrides
DictMerge_LeftWins(a, b) ==
    [i \in DOMAIN a |-> a[i]] \o NewItems(a, b)

\* a | b: the keys of a keep their place and take b's value where b has the key,
\* b's other items follow
DictMerge(a, b) ==
    [i \in DOMAIN a |-> <<a[i][1], DictGet(b, a[i][1], a[i][2])>>] \o NewItems(a, b)

\* bool(x) of a str, a list, a dict or None
Truthy(x) == x # None /\ x # <<>>

\* .get() found no template (None); a template that is an empty dict is as falsy
NoTemplate == [sql_template |-> "", description |-> ""]

\* _MATCH_CONFIG.get() found no configuration for the dialect
NoConfig == [registered |-> FALSE]

(***************************************************************************)
(* class Dialect and the strings passed as dialect                         *)
(***************************************************************************)
Dialect_POSTGRESQL == <<"p", "o", "s", "t", "g", "r", "e", "s", "q", "l">>
Dialect == { Dialect_POSTGRESQL }

\* mutant: the dialect is looked up as written, without lower()
Lower_AsWritten(str) == str

LowerChar(c) ==
    CASE c = "P" -> "p" [] c = "S" -> "s" [] c = "Q" -> "q" [] c = "L" -> "l"
      [] c = "D" -> "d" [] c = "E" -> "e" [] c = "F" -> "f" [] c = "A" -> "a"
      [] c = "U" -> "u" [] c = "T" -> "t"
      [] OTHER -> c

\* str.lower()
Lower(str) == [i \in DOMAIN str |-> LowerChar(str[i])]

(***************************************************************************)
(* _is_version_supported                                                   *)
(***************************************************************************)
\* v.split('.')
RECURSIVE Split(_)
Split(v) ==
    IF \A i \in DOMAIN v : v[i] # "."
    THEN <<v>>
    ELSE LET d == CHOOSE i \in DOMAIN v : v[i] = "." /\ \A k \in 1..(i - 1) : v[k] # "."
         IN  <<SubSeq(v, 1, d - 1)>> \o Split(SubSeq(v, d + 1, Len(v)))

\* int(c) does not raise ValueError
IsIntLiteral(c) == c # <<>> /\ \A i \in DOMAIN c : c[i] \in DigitChars

\* int(c)
RECURSIVE IntOf(_)
IntOf(c) ==
    IF Len(c) = 1 THEN (CHOOSE d \in 0..9 : DigitChar(d) = c[1])
    ELSE 10 * IntOf(SubSeq(c, 1, Len(c) - 1)) + (CHOOSE d \in 0..9 : DigitChar(d) = c[Len(c)])

\* parse(v) does not raise
Parses(v) == \A i \in DOMAIN Split(v) : IsIntLiteral(Split(v)[i])

\* parse(v)
parse(v) == [i \in DOMAIN Split(v) |-> IntOf(Split(v)[i])]

\* a >= b on tuples of integers
\* mutant: the tuples are compared with > instead of >=
RECURSIVE TupleGE_Strict(_, _)
TupleGE_Strict(a, b) ==
    IF a = <<>> THEN FALSE
    ELSE IF b = <<>> THEN TRUE
    ELSE IF Head(a) # Head(b) THEN Head(a) > Head(b)
    ELSE TupleGE_Strict(Tail(a), Tail(b))

RECURSIVE TupleGE(_, _)
TupleGE(a, b) ==
    IF b = <<>> THEN TRUE
    ELSE IF a = <<>> THEN FALSE
    ELSE IF Head(a) # Head(b) THEN Head(a) > Head(b)
    ELSE TupleGE(Tail(a), Tail(b))

is_version_supported(version, min_version) ==
    IF Parses(version) /\ Parses(min_version)
    THEN TupleGE(parse(version), parse(min_version))
    ELSE FALSE

(***************************************************************************)
(* Template records, configurations and the inputs of the resolver         *)
(***************************************************************************)
Template(sql_template, description) ==
    [sql_template |-> sql_template, description |-> description]

V12 == <<"1", "2">>
V13 == <<"1", "3">>
V13_2 == <<"1", "3", ".", "2">>
V14 == <<"1", "4">>
V15 == <<"1", "5">>
V99 == <<"9", "9">>
V99_0 == <<"9", "9", ".", "0">>
VBad == <<"1", "3", ".", "x">>

DEFAULT_SQL == Template("DEFAULT_SQL", "default")
DEFAULT_ONLY == Template("DEFAULT_ONLY", "default")
OVERRIDE_SQL_15 == Template("OVERRIDE_SQL_15", "override")
OVERRIDE_OTHER == Template("OVERRIDE_OTHER", "override")

\* the key "supported_versions" is absent from the configuration
NoVersions == <<>>

Config(min_version, supported_versions, defaults, overrides) ==
    [registered |-> TRUE, min_version |-> min_version,
     supported_versions |-> supported_versions, defaults |-> defaults, overrides |-> overrides]

\* the registry as written in match_templates.py
RealConfig ==
    Config(V13, NoVersions,
           << <<"EXACT_MATCH_STRINGS", Template("SELECT $value ... = $value", "Exact match (Standard SQL)")>>,
              <<"TRIGRAM_STRING_MATCH", Template("... <-> $value::text ...", "Fuzzy match using standard levenshtein")>>,
              <<"SEMANTIC_SIMILARITY_GEMINI", Template("... google_ml.embedding ...", "Semantic search on string values")>> >>,
           EmptyDict)

\* the configuration the tests of match_templates put in place
mock_config ==
    Config(None, <<V14, V15>>,
           << <<"TEST_FUNC", DEFAULT_SQL>>, <<"ONLY_DEFAULT", DEFAULT_ONLY>> >>,
           << <<V15, << <<"TEST_FUNC", OVERRIDE_SQL_15>> >> >> >>)

\* the configuration the tests of the generator put in place
fake_config ==
    Config(None, <<V99_0>>, EmptyDict,
           << <<V99_0, << <<"TEST_FUNC", Template("SELECT {table}.{column} WHERE version=99", "Test Description")>> >> >> >>)

\* what a version may override
OverrideSets ==
    { EmptyDict,
      << <<"TEST_FUNC", OVERRIDE_SQL_15>> >>,
      << <<"EXTRA_FUNC", OVERRIDE_OTHER>> >> }

OverrideDicts ==
    {EmptyDict}
    \cup { << <<v, o>> >> : v \in {V14, V15}, o \in OverrideSets }
    \cup { << <<V14, o1>>, <<V15, o2>> >> : o1 \in OverrideSets, o2 \in OverrideSets }

DefaultDicts ==
    { << <<"TEST_FUNC", DEFAULT_SQL>> >>,
      << <<"TEST_FUNC", DEFAULT_SQL>>, <<"ONLY_DEFAULT", DEFAULT_ONLY>> >> }

\* the configurations a test may put in place of the registry
Configs ==
    {RealConfig, mock_config, fake_config}
    \cup { Config(m, NoVersions, d, o) : m \in {None, V13}, d \in DefaultDicts, o \in OverrideDicts }

DialectArgs ==
    { Dialect_POSTGRESQL,
      <<"P", "o", "s", "t", "g", "r", "e", "S", "Q", "L">>,
      <<"m", "y", "s", "q", "l">> }

FunctionArgs ==
    { "EXACT_MATCH_STRINGS", "TEST_FUNC", "ONLY_DEFAULT", "EXTRA_FUNC", "NON_EXISTENT" }

VersionArgs == { None, <<>>, V12, V13, V13_2, V14, V15, V99, V99_0, VBad }

\* raise ValueError(message): the message is kept as what it says and the values
\* it is formatted from
Raise(says, values) == [ok |-> FALSE, error |-> says, values |-> values]
Returned(value) == [ok |-> TRUE, value |-> value]

\* mutant: the configurations are those the registry held when the module was
\* imported, kept aside and not read again
registry_get_AtImport(registry, dialect_enum) == RealConfig

\* _MATCH_CONFIG.get(dialect_enum), evaluated in the call
registry_get(registry, dialect_enum) == registry[dialect_enum]

\* mutant: overrides are consulted even when no version is given
version_overrides_WithoutVersion(overrides, version) ==
    IF Truthy(version) THEN DictGet(overrides, version, EmptyDict)
    ELSE IF overrides # <<>> THEN overrides[1][2] ELSE EmptyDict

\* mutant: the overrides of the first version listed are taken, whatever the version
version_overrides_FirstListed(overrides, version) ==
    IF Truthy(version) /\ overrides # <<>> THEN overrides[1][2] ELSE EmptyDict

\* line 126
version_overrides(overrides, version) ==
    IF Truthy(version) THEN DictGet(overrides, version, EmptyDict) ELSE EmptyDict

(***************************************************************************)
(* get_match_template(dialect, function_name, version), lines 100-138      *)
(***************************************************************************)
get_match_template(config, dialect, function_name, version) ==
    IF Lower(dialect) \notin Dialect
    THEN Raise("Dialect '{dialect}' not supported. Supported dialects: {supported}",
               [dialect |-> dialect, supported |-> Dialect])
    ELSE LET engine_config == registry_get(config, Lower(dialect))
         IN  IF engine_config = NoConfig
             THEN Raise("Dialect '{dialect}' has no configuration registered.",
                        [dialect |-> dialect])
             ELSE LET defaults == engine_config.defaults
                      min_version == engine_config.min_version
                      overrides == engine_config.overrides
                  IN  IF /\ Truthy(version)
                         /\ Truthy(min_version)
                         /\ ~is_version_supported(version, min_version)
                      THEN Raise("Version '{version}' is not supported for dialect '{dialect}'. Minimum required version: {min_version}",
                                 [version |-> version, dialect |-> dialect,
                                  min_version |-> min_version])
                      ELSE LET effective_templates ==
                                   DictMerge(defaults, version_overrides(overrides, version))
                               template == DictGet(effective_templates, function_name, NoTemplate)
                           IN  IF template = NoTemplate
                               THEN Raise("Match function '{function_name}' not found. Supported match templates: {supported_templates}",
                                          [function_name |-> function_name,
                                           supported_templates |-> DictKeys(defaults)])
                               ELSE Returned(template)

\* mutant: the merge is made in place (defaults |= version_overrides)
defaults_after_merge_InPlace(defaults, overrides_of_version) ==
    DictMerge(defaults, overrides_of_version)

\* the dict defaults once line 128 has evaluated defaults | version_overrides:
\* the operator builds a new dict
defaults_after_merge(defaults, overrides_of_version) == defaults

\* the registry once get_match_template has returned or raised: nothing before
\* line 128 and nothing after it assigns to a dict
registry_after_call(config, dialect, version) ==
    IF Lower(dialect) \notin Dialect THEN config
    ELSE LET dialect_enum == Lower(dialect)
             engine_config == registry_get(config, dialect_enum)
         IN  IF engine_config = NoConfig THEN config
             ELSE IF /\ Truthy(version)
                     /\ Truthy(engine_config.min_version)
                     /\ ~is_version_supported(version, engine_config.min_version)
             THEN config
             ELSE [config EXCEPT ![dialect_enum].defaults =
                      defaults_after_merge(@, version_overrides(engine_config.overrides,
                                                                version))]

(***************************************************************************)
(* get_available_functions(dialect, version), lines 145-165                *)
(***************************************************************************)
get_available_functions(config, dialect, version) ==
    IF Lower(dialect) \notin Dialect
    THEN Raise("Dialect '{dialect}' not supported. Supported engine: {supported}",
               [dialect |-> dialect, supported |-> Dialect])
    ELSE LET engine_config == registry_get(config, Lower(dialect))
             min_version == IF engine_config = NoConfig THEN None ELSE engine_config.min_version
             defaults == IF engine_config = NoConfig THEN EmptyDict ELSE engine_config.defaults
         IN  IF /\ Truthy(version)
                /\ Truthy(min_version)
                /\ ~is_version_supported(version, min_version)
             THEN Raise("Version '{version}' is not supported for dialect '{dialect}'. Minimum required version: {min_version}",
                        [version |-> version, dialect |-> dialect,
                         min_version |-> min_version])
             ELSE Returned(DictKeys(defaults))

\* request and outcome are the last call made on the registry as it is now and
\* what it returned or raised
NoRequest == [fn |-> "none"]
NoOutcome == [ok |-> FALSE, error |-> "", none |-> TRUE]

\* the registry after the module is imported, no call made yet
RegistryInit ==
    /\ MATCH_CONFIG = [d \in Dialect |-> RealConfig]
    /\ patched = FALSE
    /\ restored = FALSE
    /\ request = NoRequest
    /\ outcome = NoOutcome

CallGetMatchTemplate ==
    \E dialect \in DialectArgs, function_name \in FunctionArgs, version \in VersionArgs :
        /\ request' = [fn |-> "get_match_template", dialect |-> dialect,
                       function_name |-> function_name, version |-> version]
        /\ outcome' = get_match_template(MATCH_CONFIG, dialect, function_name, version)
        /\ MATCH_CONFIG' = registry_after_call(MATCH_CONFIG, dialect, version)
        /\ UNCHANGED <<patched, restored>>

CallGetAvailableFunctions ==
    \E dialect \in DialectArgs, version \in VersionArgs :
        /\ request' = [fn |-> "get_available_functions", dialect |-> dialect,
                       version |-> version]
        /\ outcome' = get_available_functions(MATCH_CONFIG, dialect, version)
        /\ UNCHANGED <<MATCH_CONFIG, patched, restored>>

\* with patch.dict(match_templates._MATCH_CONFIG, config, clear=True): the registry
\* is replaced wholesale; a replacement may also leave the dialect out. No call has
\* been made on the new registry yet.
PatchConfig ==
    /\ ~patched
    /\ \E c \in Configs \cup {NoConfig} :
           MATCH_CONFIG' = [d \in Dialect |-> c]
    /\ patched' = TRUE
    /\ restored' = FALSE
    /\ request' = NoRequest
    /\ outcome' = NoOutcome

\* the with block is left: the registry is restored
RestoreConfig ==
    /\ patched
    /\ MATCH_CONFIG' = [d \in Dialect |-> RealConfig]
    /\ patched' = FALSE
    /\ restored' = TRUE
    /\ request' = NoRequest
    /\ outcome' = NoOutcome

(***************************************************************************)
(* parameterize_sql_and_intent                                             *)
(***************************************************************************)
\* no generator is running
GeneratorIdle ==
    /\ question = <<>>
    /\ manifest = <<>>
    /\ manifest_phrases = <<>>
    /\ midx = 0
    /\ mpc = "none"
    /\ replaced = <<>>

Callers == 1..MaxCallers

\* the caller is in no call
IdleFrame == [pc |-> "idle"]

CallersIdle == frames = [c \in Callers |-> IdleFrame]

NoReturn == [none |-> TRUE]

(***************************************************************************)
(* model/context.py: ContextSet, and the JSON documents it is read from    *)
(***************************************************************************)
\* a JSON value that is a list, and null (None)
Null == [null |-> TRUE]
JsonList(items) == [null |-> FALSE, items |-> items]

\* the fields of class ContextSet
ContextSetFields == {"templates", "facets", "value_searches"}

\* the value of the first of the keys that the document has (AliasChoices), None
\* when it has none of them
RECURSIVE FieldValue(_, _)
FieldValue(document, keys) ==
    IF keys = <<>> THEN Null
    ELSE IF Head(keys) \in DOMAIN document THEN document[Head(keys)]
    ELSE FieldValue(document, Tail(keys))

\* Facet(**item): sql_snippet and parameterized_sql_snippet are also read under
\* the deprecated keys fragment and parameterized_fragment
Facet(item) ==
    [sql_snippet |-> FieldValue(item, <<"sql_snippet", "fragment">>),
     intent |-> item.intent,
     manifest |-> item.manifest,
     parameterized |->
         [parameterized_sql_snippet |->
              FieldValue(item.parameterized,
                         <<"parameterized_sql_snippet", "parameterized_fragment">>),
          parameterized_intent |-> item.parameterized.parameterized_intent]]

\* ContextSet(**document): facets is also read under the deprecated key fragments;
\* a key that is no field of the class is ignored
ContextSet(document) ==
    [templates |-> FieldValue(document, <<"templates">>),
     facets |-> LET v == FieldValue(document, <<"facets", "fragments">>)
                IN  IF v.null THEN Null
                    ELSE JsonList([i \in DOMAIN v.items |-> Facet(v.items[i])]),
     value_searches |-> FieldValue(document, <<"value_searches">>)]

\* model_dump(): every field of the class under its own name
model_dump(context_set) ==
    [templates |-> context_set.templates,
     facets |-> context_set.facets,
     value_searches |-> context_set.value_searches]

(***************************************************************************)
(* main.py: attach_context_set                                             *)
(***************************************************************************)
\* os.path.getsize(file_path) is 0
EmptyFile == [size |-> 0]

FacetItem(text) ==
    [sql_snippet |-> text, intent |-> "intent", manifest |-> "manifest",
     parameterized |-> [parameterized_sql_snippet |-> "p_snippet",
                        parameterized_intent |-> "p_intent"]]

LegacyItem(text) ==
    [fragment |-> text, intent |-> "intent", manifest |-> "manifest",
     parameterized |-> [parameterized_fragment |-> "p_snippet",
                        parameterized_intent |-> "p_intent"]]

TemplateItem(text) == [nl_query |-> text, sql |-> "sql", intent |-> "intent",
                       manifest |-> "manifest"]

ValueIndexItem(text) == [concept_type |-> text, query |-> "query"]

\* the documents a file holds before the first call
StoredDocuments ==
    { EmptyFile,
      [fragments |-> JsonList(<<LegacyItem("old_snippet")>>)],
      [facets |-> JsonList(<<FacetItem("existing_snippet")>>)],
      [templates |-> JsonList(<<TemplateItem("old_question")>>),
       facets |-> JsonList(<<FacetItem("existing_snippet"), FacetItem("other_snippet")>>)],
      [templates |-> JsonList(<<>>), facets |-> JsonList(<<>>),
       value_indices |-> JsonList(<<ValueIndexItem("City")>>)],
      [templates |-> Null, facets |-> Null, value_searches |-> Null] }

\* the documents given as context_set_json
NewDocuments ==
    { [facets |-> JsonList(<<FacetItem("new_snippet")>>)],
      [templates |-> JsonList(<<TemplateItem("new_question")>>)],
      [value_indices |-> JsonList(<<ValueIndexItem("Country")>>)],
      [templates |-> JsonList(<<TemplateItem("new_question")>>),
       facets |-> JsonList(<<LegacyItem("new_fragment")>>)] }

\* lines 181-184
existing_content_dict(stored) ==
    IF stored = EmptyFile
    THEN [templates |-> JsonList(<<>>), facets |-> JsonList(<<>>),
          value_indices |-> JsonList(<<>>)]
    ELSE stored

\* the four lines that attach one list (186-189, 191-194, 196-199): reading an
\* attribute the class does not have raises AttributeError
attach_list(existing_context, new_context, name) ==
    IF name \notin ContextSetFields
    THEN Raise("'ContextSet' object has no attribute '{name}'", [name |-> name])
    ELSE LET mine == IF existing_context[name].null THEN JsonList(<<>>)
                     ELSE existing_context[name]
             theirs == new_context[name]
         IN  Returned([existing_context EXCEPT ![name] =
                          IF ~theirs.null /\ Len(theirs.items) > 0
                          THEN JsonList(mine.items \o theirs.items)
                          ELSE mine])

NoAttach == [none |-> TRUE]

AttachIdle ==
    /\ file = EmptyFile
    /\ original = EmptyFile
    /\ attached = <<>>
    /\ attach_result = NoAttach

(***************************************************************************)
(* value_index/match_templates.py                                          *)
(***************************************************************************)
V16 == <<"1", "6">>
V999_0 == <<"9", "9", "9", ".", "0">>
DefaultWord == <<"d", "e", "f", "a", "u", "l", "t">>

\* DEFAULT_VERSIONS
DEFAULT_VERSIONS == [d \in Dialect |-> V16]

EXACT_16 == Template("EXACT_MATCH_STRINGS 16", "Exact match (Standard SQL)")
FUZZY_16 == Template("FUZZY_MATCH_STRINGS 16", "Fuzzy match using standard levenshtein")
EXACT_15 == Template("EXACT_MATCH_STRINGS 15", "Exact match")
TEST_99 == Template("SELECT ... WHERE version=99", "Test Description")

\* MATCH_TEMPLATES[Dialect.POSTGRESQL] as the module defines it
RealTemplates ==
    << <<V16, << <<"EXACT_MATCH_STRINGS", EXACT_16>>, <<"FUZZY_MATCH_STRINGS", FUZZY_16>> >> >> >>

\* the registry of test_generate_value_index_specific_version_success
fake_registry == << <<V99_0, << <<"TEST_FUNC", TEST_99>> >> >> >>

\* what a test may put in place of the registry; a dialect without an entry has
\* the empty dict here, which `not engine_config` treats as the missing entry
TemplateRegistries ==
    { fake_registry,
      RealTemplates \o << <<V15, << <<"EXACT_MATCH_STRINGS", EXACT_15>> >> >> >>,
      << <<V15, << <<"EXACT_MATCH_STRINGS", EXACT_15>> >> >>, <<V16, EmptyDict>> >>,
      EmptyDict }

IndexFunctionArgs == { "EXACT_MATCH_STRINGS", "FUZZY_MATCH_STRINGS", "TEST_FUNC", "BAD_FUNC" }

IndexVersionArgs ==
    { None, <<>>, DefaultWord, <<"D", "E", "F", "A", "U", "L", "T">>,
      <<"D", "e", "f", "a", "u", "l", "t">>, V15, V16, V99_0, V999_0 }

\* mutant: a version without an entry gets the templates of the first version
\* registered
version_config_of_Fallback(engine_config, target_version_key) ==
    IF DictHas(engine_config, target_version_key)
    THEN DictGet(engine_config, target_version_key, EmptyDict)
    ELSE engine_config[1][2]

\* engine_config.get(target_version_key), None read as the empty dict
version_config_of(engine_config, target_version_key) ==
    DictGet(engine_config, target_version_key, EmptyDict)

\* get_match_template of value_index/match_templates.py
index_get_match_template(templates, dialect, function_name, version) ==
    IF Lower(dialect) \notin Dialect
    THEN Raise("Dialect '{dialect}' not supported. Supported dialects: {supported}",
               [dialect |-> dialect, supported |-> Dialect])
    ELSE LET dialect_enum == Lower(dialect)
             engine_config == templates[dialect_enum]
         IN  IF engine_config = EmptyDict
             THEN Raise("Dialect '{dialect}' has no templates registered.",
                        [dialect |-> dialect])
             ELSE LET asked == IF Truthy(version) THEN version ELSE DefaultWord
                      target_version_key ==
                          IF Lower(asked) = DefaultWord THEN DEFAULT_VERSIONS[dialect_enum]
                          ELSE asked
                  IN  IF ~Truthy(target_version_key)
                      THEN Raise("Configuration Error: No default version defined for dialect '{dialect}'.",
                                 [dialect |-> dialect])
                      ELSE LET version_config ==
                                   version_config_of(engine_config, target_version_key)
                           IN  IF version_config = EmptyDict
                               THEN Raise("Version '{target_version_key}' not found for dialect '{dialect}'. Available versions: {available}",
                                          [version |-> target_version_key, dialect |-> dialect,
                                           available |-> DictKeys(engine_config)])
                               ELSE LET template ==
                                            DictGet(version_config, function_name, NoTemplate)
                                    IN  IF template = NoTemplate
                                        THEN Raise("Match function '{function_name}' not found for {dialect} (version: {target_version_key}).",
                                                   [function_name |-> function_name,
                                                    dialect |-> dialect,
                                                    version |-> target_version_key])
                                        ELSE Returned(template)

IndexIdle ==
    /\ MATCH_TEMPLATES = [d \in Dialect |-> RealTemplates]
    /\ index_request = NoRequest
    /\ index_outcome = NoOutcome

(***************************************************************************)
(* The tools that call the generative model: no coroutine has started      *)
(***************************************************************************)
NoClient == [created |-> FALSE]
NoResponse == "none"

ClientIdle ==
    /\ tool = "none"
    /\ tpc = "idle"
    /\ response = NoResponse
    /\ client = NoClient
    /\ released = <<>>

\* none of the other tools is running
OthersIdle == AttachIdle /\ IndexIdle /\ ClientIdle

\* generate_value_searches is not running
ValueSearchIdle ==
    /\ inputs = <<>>
    /\ db_engine = <<>>
    /\ db_version = None
    /\ item_index = 0
    /\ value_searches = <<>>
    /\ spc = "none"
    /\ returned = NoReturn

Init ==
    /\ RegistryInit
    /\ GeneratorIdle
    /\ CallersIdle
    /\ OthersIdle
    /\ ValueSearchIdle
    /\ value_phrases \in PhraseLists
    /\ sql \in SqlTexts
    /\ intent \in IntentTexts
    /\ db_dialect \in SQLDialect
    /\ psql = <<>>
    /\ pintent = <<>>
    /\ param_index = 0
    /\ sorted_phrases = <<>>
    /\ idx = 0
    /\ pc = "call"
    /\ result = NoResult
    /\ calls = 0
    /\ first_call = NoCall
    /\ assigned = <<>>

\* lines 143-148: the function is entered with sql s and intent t
Entry(s, t) ==
    /\ sql' = s
    /\ intent' = t
    /\ psql' = s
    /\ pintent' = t
    /\ param_index' = 1
    /\ sorted_phrases' = SortedByLenDesc(value_phrases)
    /\ idx' = 1
    /\ pc' = "loop"
    /\ result' = NoResult
    /\ calls' = calls + 1
    /\ assigned' = <<>>
    /\ UNCHANGED <<value_phrases, db_dialect, first_call>>
    /\ UNCHANGED <<rvars, xvars>>

\* the first call, on the drawn inputs
Enter ==
    /\ pc = "call"
    /\ Entry(sql, intent)

\* lines 150-187: one iteration of the for loop
LoopBody ==
    /\ pc = "loop"
    /\ idx <= Len(sorted_phrases)
    /\ \E value \in {sorted_phrases[idx]} :
       \E placeholder \in {Placeholder(db_dialect, param_index)} :
       \E c \in {Condition(value, psql, pintent)} :
         IF c # 0
         THEN /\ psql' = Sub(SqlPattern(c, value), placeholder, psql)
              /\ pintent' = Sub(IntentPattern(c, value), placeholder, pintent)
              /\ param_index' = param_index + 1
              /\ assigned' = Append(assigned, [phrase |-> value, placeholder |-> placeholder, cond |-> c])
         ELSE UNCHANGED <<psql, pintent, param_index, assigned>>
    /\ idx' = idx + 1
    /\ UNCHANGED <<value_phrases, sql, intent, db_dialect, sorted_phrases, pc, result,
                   calls, first_call>>
    /\ UNCHANGED <<rvars, xvars>>

\* line 189
Return ==
    /\ pc = "loop"
    /\ idx > Len(sorted_phrases)
    /\ result' = [sql |-> psql, intent |-> pintent]
    /\ pc' = "done"
    /\ first_call' = IF calls = 1
                     THEN [sql |-> sql, intent |-> intent, result |-> result']
                     ELSE first_call
    /\ UNCHANGED <<value_phrases, sql, intent, db_dialect, psql, pintent, param_index,
                   sorted_phrases, idx, calls, assigned>>
    /\ UNCHANGED <<rvars, xvars>>

\* the caller passes the returned sql and intent to a further call, with the same
\* PhraseSet and dialect
Reparameterize ==
    /\ pc = "done"
    /\ calls < MaxCalls
    /\ Entry(result.sql, result.intent)

Next == Enter \/ LoopBody \/ Return \/ Reparameterize

Spec == Init /\ [][Next]_vars

(***************************************************************************)
(* The resolver on its own: calls of get_match_template and                *)
(* get_available_functions, and tests replacing and restoring the registry *)
(***************************************************************************)
\* no call of parameterize_sql_and_intent is in progress
ParameterizerIdle ==
    /\ value_phrases = <<>>
    /\ sql = <<>>
    /\ intent = <<>>
    /\ db_dialect = POSTGRESQL
    /\ psql = <<>>
    /\ pintent = <<>>
    /\ param_index = 0
    /\ sorted_phrases = <<>>
    /\ idx = 0
    /\ pc = "call"
    /\ result = NoResult
    /\ calls = 0
    /\ first_call = NoCall
    /\ assigned = <<>>

ResolverInit ==
    /\ RegistryInit /\ ParameterizerIdle /\ GeneratorIdle /\ CallersIdle /\ ValueSearchIdle
    /\ OthersIdle

ResolverNext ==
    \/ CallGetMatchTemplate /\ UNCHANGED <<pvars, xvars>>
    \/ CallGetAvailableFunctions /\ UNCHANGED <<pvars, xvars>>
    \/ PatchConfig /\ UNCHANGED <<pvars, xvars>>
    \/ RestoreConfig /\ UNCHANGED <<pvars, xvars>>

SpecResolver == ResolverInit /\ [][ResolverNext]_vars

(***************************************************************************)
(* parameterize_sql_and_intent as its callers see it: one call, from the   *)
(* arguments to the returned dict                                          *)
(***************************************************************************)
\* the for loop of lines 150-187 from position k on, line 189 at its end
RECURSIVE ParameterizeFrom(_, _, _, _, _, _)
ParameterizeFrom(phrases, k, s, t, n, dialect) ==
    IF k > Len(phrases)
    THEN [sql |-> s, intent |-> t]
    ELSE LET c == Condition(phrases[k], s, t)
         IN
         IF c # 0
         THEN ParameterizeFrom(phrases, k + 1,
                               Sub(SqlPattern(c, phrases[k]), Placeholder(dialect, n), s),
                               Sub(IntentPattern(c, phrases[k]), Placeholder(dialect, n), t),
                               n + 1, dialect)
         ELSE ParameterizeFrom(phrases, k + 1, s, t, n, dialect)

parameterize_sql_and_intent(keys, s, t, dialect) ==
    ParameterizeFrom(SortedByLenDesc(keys), 1, s, t, 1, dialect)

(***************************************************************************)
(* generate_facets_from_items / generate_fragments_from_pairs: the body of *)
(* the loop for one item, from the extracted phrases to the assembled      *)
(* facet or fragment                                                       *)
(***************************************************************************)
CITY == <<"c", "i", "t", "y">>
REGION == <<"r", "e", "g", "i", "o", "n">>
PERSON == <<"p", "e", "r", "s", "o", "n">>
CURRENCY == <<"c", "u", "r", "r", "e", "n", "c", "y">>
VALUE == <<"v", "a", "l", "u", "e">>

\* phrases[phrase]: the type tags extract_value_phrases gave the phrase
PhraseTypes(phrase) ==
    CASE phrase = AA -> <<CITY, REGION>>
      [] phrase = BB -> <<PERSON>>
      [] phrase = D1 -> <<CURRENCY>>
      [] OTHER -> <<>>

\* mutant: the last type tag is used
phrase_type_Last(phrase) ==
    IF PhraseTypes(phrase) # <<>>
    THEN PhraseTypes(phrase)[Len(PhraseTypes(phrase))] ELSE VALUE

\* phrases[phrase][0] if phrases[phrase] else "value"
phrase_type(phrase) ==
    IF PhraseTypes(phrase) # <<>> THEN PhraseTypes(phrase)[1] ELSE VALUE

\* f"a given {phrase_type}"
AGiven(type) == <<"a", " ", "g", "i", "v", "e", "n", " ">> \o type

\* t.replace(old, new) from position i on: every occurrence, left to right,
\* without overlap (old is not empty)
RECURSIVE ReplaceFrom(_, _, _, _)
ReplaceFrom(t, old, new, i) ==
    IF i > Len(t) THEN <<>>
    ELSE IF /\ i + Len(old) - 1 <= Len(t)
            /\ \A k \in 1..Len(old) : t[i + k - 1] = old[k]
         THEN new \o ReplaceFrom(t, old, new, i + Len(old))
         ELSE <<t[i]>> \o ReplaceFrom(t, old, new, i + 1)

StrReplace(t, old, new) == ReplaceFrom(t, old, new, 1)

\* the texts an item gives as sql_snippet, facet or fragment
FacetTexts == {<<>>} \cup SqlAtoms

\* an item is taken from the list and its phrases are extracted
GeneratorInit ==
    /\ RegistryInit
    /\ CallersIdle
    /\ OthersIdle
    /\ ValueSearchIdle
    /\ value_phrases \in PhraseLists
    /\ question \in IntentTexts
    /\ sql \in FacetTexts
    /\ intent \in {question, AA}
    /\ db_dialect \in SQLDialect
    /\ psql = <<>>
    /\ pintent = <<>>
    /\ param_index = 0
    /\ sorted_phrases = <<>>
    /\ idx = 0
    /\ pc = "caller"
    /\ result = NoResult
    /\ calls = 0
    /\ first_call = NoCall
    /\ assigned = <<>>
    /\ manifest = <<>>
    /\ manifest_phrases = <<>>
    /\ midx = 0
    /\ mpc = "item"
    /\ replaced = <<>>

\* facet_generator.py lines 47-49
ManifestBegin ==
    /\ mpc = "item"
    /\ manifest' = question
    /\ manifest_phrases' = SortedByLenDesc(value_phrases)
    /\ midx' = 1
    /\ mpc' = "manifest"
    /\ UNCHANGED <<question, replaced>>
    /\ UNCHANGED <<pvars, rvars, cvars, svars, ovars>>

\* facet_generator.py lines 50-53: one iteration
ManifestReplace ==
    /\ mpc = "manifest"
    /\ midx <= Len(manifest_phrases)
    /\ \E phrase \in {manifest_phrases[midx]} :
       \E with \in {AGiven(phrase_type(phrase))} :
         /\ manifest' = StrReplace(manifest, phrase, with)
         /\ replaced' = Append(replaced, [phrase |-> phrase, with |-> with,
                                          before |-> manifest, after |-> manifest'])
    /\ midx' = midx + 1
    /\ UNCHANGED <<question, manifest_phrases, mpc>>
    /\ UNCHANGED <<pvars, rvars, cvars, svars, ovars>>

\* facet_generator.py lines 56-69: the call of the parameterizer and the
\* assembly of the facet from manifest and result
Assemble ==
    /\ mpc = "manifest"
    /\ midx > Len(manifest_phrases)
    /\ result' = parameterize_sql_and_intent(value_phrases, sql, intent, db_dialect)
    /\ calls' = calls + 1
    /\ mpc' = "assembled"
    /\ UNCHANGED <<value_phrases, sql, intent, db_dialect, psql, pintent, param_index,
                   sorted_phrases, idx, pc, first_call, assigned>>
    /\ UNCHANGED <<question, manifest, manifest_phrases, midx, replaced>>
    /\ UNCHANGED <<rvars, cvars, svars, ovars>>

GeneratorNext == ManifestBegin \/ ManifestReplace \/ Assemble

SpecGenerator == GeneratorInit /\ [][GeneratorNext]_vars

(***************************************************************************)
(* Several callers at once: each is in a call of its own, with the         *)
(* arguments it passed and the locals of that call; the registry is the    *)
(* one module-level object they all read                                   *)
(***************************************************************************)
ParameterizeArgs ==
    { [op |-> "parameterize_sql_and_intent", value_phrases |-> <<BB, AA>>,
       sql |-> search_phrase_quoted(AA) \o SP \o BB, intent |-> AA \o SP \o BB,
       db_dialect |-> POSTGRESQL],
      [op |-> "parameterize_sql_and_intent", value_phrases |-> <<AA, AA \o SP \o BB>>,
       sql |-> search_phrase_quoted(AA \o SP \o BB) \o SP \o AA,
       intent |-> AA \o SP \o BB \o SP \o AA, db_dialect |-> POSTGRESQL],
      [op |-> "parameterize_sql_and_intent", value_phrases |-> <<AA>>,
       sql |-> search_phrase_quoted(AA), intent |-> AA, db_dialect |-> MYSQL],
      [op |-> "parameterize_sql_and_intent", value_phrases |-> <<AA>>,
       sql |-> BB, intent |-> AA, db_dialect |-> POSTGRESQL] }

ResolverArgs ==
    { [op |-> "get_match_template", dialect |-> Dialect_POSTGRESQL,
       function_name |-> "EXACT_MATCH_STRINGS", version |-> None],
      [op |-> "get_match_template", dialect |-> Dialect_POSTGRESQL,
       function_name |-> "NON_EXISTENT", version |-> V13],
      [op |-> "get_match_template", dialect |-> Dialect_POSTGRESQL,
       function_name |-> "EXACT_MATCH_STRINGS", version |-> V12],
      [op |-> "get_available_functions", dialect |-> Dialect_POSTGRESQL, version |-> V14],
      [op |-> "get_available_functions", dialect |-> <<"m", "y", "s", "q", "l">>,
       version |-> None] }

\* mutant: the counter is one object all calls share: a call reads the highest
\* count a call in progress has reached
local_param_index_Shared(fr, c) ==
    CHOOSE n \in { fr[d].param_index : d \in { e \in DOMAIN fr : fr[e].pc = "loop" } } :
        \A d \in { e \in DOMAIN fr : fr[e].pc = "loop" } : n >= fr[d].param_index

\* param_index is a local of the call (line 145)
local_param_index(fr, c) == fr[c].param_index

\* another caller is inside parameterize_sql_and_intent
OthersInLoop(c) == \E d \in Callers \ {c} : frames[d].pc = "loop"

\* lines 143-148 for caller c
CallerEnters(c) ==
    /\ frames[c] = IdleFrame
    /\ \E a \in ParameterizeArgs :
         frames' = [frames EXCEPT ![c] =
                       [pc |-> "loop", args |-> a, psql |-> a.sql, pintent |-> a.intent,
                        param_index |-> 1,
                        sorted_phrases |-> SortedByLenDesc(a.value_phrases),
                        idx |-> 1, assigned |-> <<>>, interleaved |-> FALSE]]
    /\ UNCHANGED <<pvars, rvars, gvars, svars, ovars>>

\* lines 150-187 for caller c: one iteration
CallerLoops(c) ==
    /\ frames[c].pc = "loop"
    /\ frames[c].idx <= Len(frames[c].sorted_phrases)
    /\ \E f \in {frames[c]} :
       \E value \in {f.sorted_phrases[f.idx]} :
       \E n \in {local_param_index(frames, c)} :
       \E placeholder \in {Placeholder(f.args.db_dialect, n)} :
       \E k \in {Condition(value, f.psql, f.pintent)} :
         frames' = [frames EXCEPT ![c] =
             IF k # 0
             THEN [f EXCEPT !.psql = Sub(SqlPattern(k, value), placeholder, f.psql),
                            !.pintent = Sub(IntentPattern(k, value), placeholder, f.pintent),
                            !.param_index = n + 1,
                            !.assigned = Append(f.assigned,
                                [phrase |-> value, placeholder |-> placeholder, cond |-> k]),
                            !.idx = f.idx + 1,
                            !.interleaved = f.interleaved \/ OthersInLoop(c)]
             ELSE [f EXCEPT !.idx = f.idx + 1,
                            !.interleaved = f.interleaved \/ OthersInLoop(c)]]
    /\ UNCHANGED <<pvars, rvars, gvars, svars, ovars>>

\* line 189 for caller c
CallerReturns(c) ==
    /\ frames[c].pc = "loop"
    /\ frames[c].idx > Len(frames[c].sorted_phrases)
    /\ frames' = [frames EXCEPT ![c] =
                     [pc |-> "done", args |-> frames[c].args,
                      assigned |-> frames[c].assigned,
                      interleaved |-> frames[c].interleaved,
                      result |-> [sql |-> frames[c].psql, intent |-> frames[c].pintent]]]
    /\ UNCHANGED <<pvars, rvars, gvars, svars, ovars>>

\* caller c calls get_match_template or get_available_functions
CallerResolves(c) ==
    /\ frames[c] = IdleFrame
    /\ \E a \in ResolverArgs :
         frames' = [frames EXCEPT ![c] =
                       [pc |-> "done", args |-> a, assigned |-> <<>>,
                        interleaved |-> OthersInLoop(c),
                        result |-> IF a.op = "get_match_template"
                                   THEN get_match_template(MATCH_CONFIG, a.dialect,
                                                           a.function_name, a.version)
                                   ELSE get_available_functions(MATCH_CONFIG, a.dialect,
                                                                a.version)]]
    /\ UNCHANGED <<pvars, rvars, gvars, svars, ovars>>

ConcurrentInit ==
    /\ RegistryInit /\ ParameterizerIdle /\ GeneratorIdle /\ CallersIdle /\ ValueSearchIdle
    /\ OthersIdle

ConcurrentNext ==
    \E c \in Callers :
        CallerEnters(c) \/ CallerLoops(c) \/ CallerReturns(c) \/ CallerResolves(c)

SpecConcurrent == ConcurrentInit /\ [][ConcurrentNext]_vars

(***************************************************************************)
(* generate_value_searches (src/mcp/value_search/generator.py)             *)
(***************************************************************************)
\* item.get(field) found nothing (None), or a value that is empty
Missing == ""

Item(table_name, column_name, concept_type, match_function, description) ==
    [table_name |-> table_name, column_name |-> column_name,
     concept_type |-> concept_type, match_function |-> match_function,
     description |-> description]

\* the items of the tests: complete ones, one without column_name, one that
\* names a function the registry does not have
ItemPool ==
    { Item("users", "city", "City", "EXACT_MATCH_STRINGS", Missing),
      Item("products", Missing, "Product", "EXACT_MATCH_STRINGS", Missing),
      Item("products", "name", "ProductName", "FUZZY_MATCH_STRINGS", Missing),
      Item("users", "country_code", "Country", "TRIGRAM_STRING_MATCH", "Find users by country") }

\* value_search_inputs_json is not JSON: json.loads raises JSONDecodeError
InvalidJson == << [invalid_json |-> TRUE] >>

InputLists == UNION { [1..n -> ItemPool] : n \in 0..MaxItems } \cup {InvalidJson}

EngineArgs == { Dialect_POSTGRESQL, <<"i", "n", "v", "a", "l", "i", "d", "_", "d", "b">> }

\* all([table_name, column_name, concept_type, match_function])
HasRequiredFields(item) ==
    /\ item.table_name # Missing
    /\ item.column_name # Missing
    /\ item.concept_type # Missing
    /\ item.match_function # Missing

\* raw_sql.format(table=..., column=..., concept_type=...): the template with the
\* names written into its fields
Format(raw_sql, table, column, concept_type) ==
    [template |-> raw_sql, table |-> table, column |-> column, concept_type |-> concept_type]

ValueSearch(concept_type, query, description) ==
    [concept_type |-> concept_type, query |-> query, description |-> description]

\* the function is called
ValueSearchInit ==
    /\ RegistryInit
    /\ ParameterizerIdle
    /\ GeneratorIdle
    /\ CallersIdle
    /\ OthersIdle
    /\ inputs \in InputLists
    /\ db_engine \in EngineArgs
    /\ db_version \in {None, V12, V13}
    /\ item_index = 0
    /\ value_searches = <<>>
    /\ spc = "call"
    /\ returned = NoReturn

\* lines 30-35
ParseInputs ==
    /\ spc = "call"
    /\ IF inputs = InvalidJson
       THEN /\ returned' = [error |-> "Invalid JSON format: {e}"]
            /\ spc' = "returned"
            /\ UNCHANGED item_index
       ELSE /\ item_index' = 1
            /\ spc' = "loop"
            /\ UNCHANGED returned
    /\ UNCHANGED <<inputs, db_engine, db_version, value_searches>>
    /\ UNCHANGED <<pvars, rvars, gvars, cvars, ovars>>

\* lines 37-69: one iteration of the for loop
ItemStep ==
    /\ spc = "loop"
    /\ item_index <= Len(inputs)
    /\ \E item \in {inputs[item_index]} :
         IF ~HasRequiredFields(item)
         THEN UNCHANGED value_searches
         ELSE \E template_def \in {get_match_template(MATCH_CONFIG, db_engine,
                                                       item.match_function, db_version)} :
              IF template_def.ok
              THEN value_searches' =
                       Append(value_searches,
                              ValueSearch(item.concept_type,
                                          Format(template_def.value.sql_template,
                                                 item.table_name, item.column_name,
                                                 item.concept_type),
                                          item.description))
              ELSE UNCHANGED value_searches
    /\ item_index' = item_index + 1
    /\ UNCHANGED <<inputs, db_engine, db_version, spc, returned>>
    /\ UNCHANGED <<pvars, rvars, gvars, cvars, ovars>>

\* lines 71-73
ReturnContextSet ==
    /\ spc = "loop"
    /\ item_index > Len(inputs)
    /\ returned' = [value_searches |-> value_searches]
    /\ spc' = "returned"
    /\ UNCHANGED <<inputs, db_engine, db_version, item_index, value_searches>>
    /\ UNCHANGED <<pvars, rvars, gvars, cvars, ovars>>

ValueSearchNext == ParseInputs \/ ItemStep \/ ReturnContextSet

SpecValueSearch == ValueSearchInit /\ [][ValueSearchNext]_vars

(***************************************************************************)
(* attach_context_set (src/mcp/main.py): calls on one file                 *)
(***************************************************************************)
\* a file exists at file_path
AttachInit ==
    /\ RegistryInit
    /\ ParameterizerIdle
    /\ GeneratorIdle
    /\ CallersIdle
    /\ ValueSearchIdle
    /\ IndexIdle
    /\ ClientIdle
    /\ file \in StoredDocuments
    /\ original = file
    /\ attached = <<>>
    /\ attach_result = NoAttach

\* one call, lines 180-204: the file is written at lines 201-202 only when no
\* line before them has raised
AttachContextSet ==
    /\ Len(attached) < MaxAttach
    /\ \E new_document \in NewDocuments :
         LET existing_context == ContextSet(existing_content_dict(file))
             new_context == ContextSet(new_document)
             templates == attach_list(existing_context, new_context, "templates")
             facets == IF templates.ok
                       THEN attach_list(templates.value, new_context, "facets")
                       ELSE templates
             value_indices == IF facets.ok
                              THEN attach_list(facets.value, new_context, "value_indices")
                              ELSE facets
         IN  /\ IF value_indices.ok
                THEN /\ file' = model_dump(value_indices.value)
                     /\ attach_result' = Returned("Successfully attached context to {file_path}")
                ELSE /\ file' = file
                     /\ attach_result' = value_indices
             /\ attached' = Append(attached, new_document)
    /\ UNCHANGED original
    /\ UNCHANGED <<pvars, rvars, gvars, cvars, svars, ivars, kvars>>

AttachNext == AttachContextSet

SpecAttach == AttachInit /\ [][AttachNext]_vars

(***************************************************************************)
(* The value-index resolver on its own: calls of get_match_template, and   *)
(* tests replacing and restoring MATCH_TEMPLATES                           *)
(***************************************************************************)
IndexInit ==
    /\ RegistryInit
    /\ ParameterizerIdle
    /\ GeneratorIdle
    /\ CallersIdle
    /\ ValueSearchIdle
    /\ AttachIdle
    /\ ClientIdle
    /\ IndexIdle

IndexCall ==
    /\ \E dialect \in DialectArgs, function_name \in IndexFunctionArgs,
          version \in IndexVersionArgs :
         /\ index_request' = [fn |-> "get_match_template", dialect |-> dialect,
                              function_name |-> function_name, version |-> version]
         /\ index_outcome' =
                index_get_match_template(MATCH_TEMPLATES, dialect, function_name, version)
    /\ UNCHANGED MATCH_TEMPLATES
    /\ UNCHANGED <<pvars, rvars, gvars, cvars, svars, avars, kvars>>

\* with patch.dict(match_templates.MATCH_TEMPLATES, fake_registry, clear=True):
IndexPatch ==
    /\ MATCH_TEMPLATES = [d \in Dialect |-> RealTemplates]
    /\ \E templates \in TemplateRegistries :
           MATCH_TEMPLATES' = [d \in Dialect |-> templates]
    /\ index_request' = NoRequest
    /\ index_outcome' = NoOutcome
    /\ UNCHANGED <<pvars, rvars, gvars, cvars, svars, avars, kvars>>

\* the with block is left
IndexRestore ==
    /\ MATCH_TEMPLATES # [d \in Dialect |-> RealTemplates]
    /\ MATCH_TEMPLATES' = [d \in Dialect |-> RealTemplates]
    /\ index_request' = NoRequest
    /\ index_outcome' = NoOutcome
    /\ UNCHANGED <<pvars, rvars, gvars, cvars, svars, avars, kvars>>

IndexNext == IndexCall \/ IndexPatch \/ IndexRestore

SpecValueIndex == IndexInit /\ [][IndexNext]_vars

(***************************************************************************)
(* The coroutines that create a genai.Client: generate_sql_pairs_from_schema*)
(* (template/question_generator.py), extract_value_phrases                 *)
(* (template/parameterizer.py) and bootstrap_context                       *)
(* (bootstrap/context_generator.py), run one after the other               *)
(***************************************************************************)
Tools == {"generate_sql_pairs_from_schema", "extract_value_phrases", "bootstrap_context"}

\* what awaiting generate_content gives: a response whose text validates, one
\* whose text does not, one without text, or an exception
Responses == {"text", "invalid_text", "empty", "failure"}

NewClient(t) == [created |-> TRUE, tool |-> t, generate_content |-> 0, close |-> 0,
                 aclose |-> 0, response |-> NoResponse, result |-> "none"]

\* the try block from the response on, with its except clause: "returned" or
\* "raised". bootstrap_context has no except clause and goes on, for a text
\* that validates, to the template and facet generators, which return or raise
try_block(t, resp, generators) ==
    CASE resp = "failure" -> "raised"
      [] resp = "invalid_text" -> "raised"
      [] resp = "empty" -> "returned"
      [] OTHER -> IF t = "bootstrap_context" THEN generators ELSE "returned"

\* mutant: the finally block closes the synchronous client only
finally_block_SyncOnly(t) == <<"close">>

\* the calls of the finally block, in order
finally_block(t) ==
    IF t = "bootstrap_context" THEN <<"aclose">> ELSE <<"close", "aclose">>

Count(seq, x) == Cardinality({i \in DOMAIN seq : seq[i] = x})

ClientInit ==
    /\ RegistryInit
    /\ ParameterizerIdle
    /\ GeneratorIdle
    /\ CallersIdle
    /\ ValueSearchIdle
    /\ AttachIdle
    /\ IndexIdle
    /\ ClientIdle

\* the coroutine starts and reaches client = genai.Client()
CreateClient ==
    /\ tpc = "idle"
    /\ Len(released) < MaxCoroutines
    /\ \E t \in Tools :
         /\ tool' = t
         /\ client' = NewClient(t)
    /\ tpc' = "try"
    /\ UNCHANGED <<response, released>>
    /\ UNCHANGED <<pvars, rvars, gvars, cvars, svars, avars, ivars>>

\* await client.aio.models.generate_content(...): the call is made
CallGenerateContent ==
    /\ tpc = "try"
    /\ client' = [client EXCEPT !.generate_content = @ + 1]
    /\ tpc' = "awaiting"
    /\ UNCHANGED <<tool, response, released>>
    /\ UNCHANGED <<pvars, rvars, gvars, cvars, svars, avars, ivars>>

\* the awaited call ends, and the rest of the try block runs
TryBlock ==
    /\ tpc = "awaiting"
    /\ \E resp \in Responses, generators \in {"returned", "raised"} :
         /\ response' = resp
         /\ client' = [client EXCEPT !.response = resp,
                                      !.result = try_block(tool, resp, generators)]
    /\ tpc' = "finally"
    /\ UNCHANGED <<tool, released>>
    /\ UNCHANGED <<pvars, rvars, gvars, cvars, svars, avars, ivars>>

\* the finally block
FinallyBlock ==
    /\ tpc = "finally"
    /\ client' = [client EXCEPT !.close = @ + Count(finally_block(tool), "close"),
                                !.aclose = @ + Count(finally_block(tool), "aclose")]
    /\ tpc' = "end"
    /\ UNCHANGED <<tool, response, released>>
    /\ UNCHANGED <<pvars, rvars, gvars, cvars, svars, avars, ivars>>

\* the coroutine ends: its caller has the result or the exception
EndCoroutine ==
    /\ tpc = "end"
    /\ released' = Append(released, client)
    /\ tool' = "none"
    /\ tpc' = "idle"
    /\ response' = NoResponse
    /\ client' = NoClient
    /\ UNCHANGED <<pvars, rvars, gvars, cvars, svars, avars, ivars>>

ClientNext ==
    \/ CreateClient
    \/ CallGenerateContent
    \/ TryBlock
    \/ FinallyBlock
    \/ EndCoroutine

\* the event loop resumes a coroutine that can go on, and the awaited call ends
SpecClient ==
    /\ ClientInit
    /\ [][ClientNext]_vars
    /\ WF_vars(CallGenerateContent)
    /\ WF_vars(TryBlock)
    /\ WF_vars(FinallyBlock)
    /\ WF_vars(EndCoroutine)

(***************************************************************************)
(* _is_version_supported on its own                                        *)
(***************************************************************************)
V9 == <<"9">>
V100 == <<"1", "0", "0">>
V13_0 == <<"1", "3", ".", "0">>
V13_10 == <<"1", "3", ".", "1", "0">>
V13_2_1 == <<"1", "3", ".", "2", ".", "1">>
V13_ == <<"1", "3", ".">>

VersionPool ==
    { <<>>, V9, V12, V13, V13_, V13_0, V13_2, V13_10, V14, V99_0, V100, VBad }

MinVersionPool == { V9, V12, V13, V13_0, V13_2, V13_2_1, V14, V100, <<"x">> }

CallIsVersionSupported ==
    /\ \E version \in VersionPool, min_version \in MinVersionPool :
         /\ request' = [fn |-> "_is_version_supported", version |-> version,
                        min_version |-> min_version]
         /\ outcome' = Returned(is_version_supported(version, min_version))
    /\ UNCHANGED <<MATCH_CONFIG, patched, restored>>
    /\ UNCHANGED <<pvars, xvars>>

SpecVersion == ResolverInit /\ [][CallIsVersionSupported]_vars

(***************************************************************************)
(* Vocabulary of the properties.                                           *)
(***************************************************************************)
\* p is written in t at position i
IsAt(p, t, i) ==
    /\ i >= 1
    /\ i + Len(p) - 1 <= Len(t)
    /\ \A k \in 1..Len(p) : t[i + k - 1] = p[k]

\* p is present in t, quoted or not
Occurs(p, t) == \E i \in 1..Len(t) : IsAt(p, t, i)

\* the phrases substituted so far in this call
AssignedPhrases == { assigned[j].phrase : j \in DOMAIN assigned }

\* position of phrase p in sorted_phrases (0 if absent)
PosOf(p) ==
    IF \E k \in DOMAIN sorted_phrases : sorted_phrases[k] = p
    THEN CHOOSE k \in DOMAIN sorted_phrases : sorted_phrases[k] = p
    ELSE 0

\* the first position at which p is written in t (0 if it is not)
FirstAt(p, t) ==
    IF Occurs(p, t) THEN CHOOSE i \in 1..Len(t) : IsAt(p, t, i) /\ \A k \in 1..(i - 1) : ~IsAt(p, t, k)
    ELSE 0

\* position of key p in the PhraseSet
KeyIndex(p) == CHOOSE k \in DOMAIN value_phrases : value_phrases[k] = p

Keys == { value_phrases[k] : k \in DOMAIN value_phrases }

\* no phrase of the PhraseSet is present in both s and t
NoPhraseInBoth(s, t) == \A p \in Keys : ~(Occurs(p, s) /\ Occurs(p, t))

\* pairs <<shorter, longer>> of keys where the longer phrase contains the shorter
NestedPairs == { pr \in Keys \X Keys : Len(pr[1]) < Len(pr[2]) /\ Occurs(pr[1], pr[2]) }

DigitValue(c) ==
    CASE c = "0" -> 0 [] c = "1" -> 1 [] c = "2" -> 2 [] c = "3" -> 3 [] c = "4" -> 4
      [] c = "5" -> 5 [] c = "6" -> 6 [] c = "7" -> 7 [] c = "8" -> 8 [] c = "9" -> 9

\* the number written by a non-empty sequence of decimal digits
RECURSIVE ParseNat(_)
ParseNat(ds) ==
    IF Len(ds) = 1 THEN DigitValue(ds[1])
    ELSE 10 * ParseNat(SubSeq(ds, 1, Len(ds) - 1)) + DigitValue(ds[Len(ds)])

\* ph is the token $n
IsDollarN(ph, n) ==
    /\ Len(ph) >= 2
    /\ ph[1] = "$"
    /\ \A k \in 2..Len(ph) : ph[k] \in DigitChars
    /\ ParseNat(Tail(ph)) = n

\* number of $<digit> tokens written in t
DollarTokens(t) == Cardinality({ i \in 1..(Len(t) - 1) : t[i] = "$" /\ t[i + 1] \in DigitChars })

\* the loop iteration just executed substituted its phrase
JustSubstituted ==
    /\ pc = "loop"
    /\ idx >= 2
    /\ assigned # <<>>
    /\ assigned[Len(assigned)].phrase = sorted_phrases[idx - 1]

LastAssigned == assigned[Len(assigned)]

(***************************************************************************)
(* C1  Both-sides requirement: a phrase of the PhraseSet that occurs in    *)
(* only one of sql and intent is never substituted in this call (and so    *)
(* never advances the placeholder counter).                                *)
(***************************************************************************)
C1_BothSidesRequirement ==
    \A p \in AssignedPhrases : Occurs(p, sql) = Occurs(p, intent)

(***************************************************************************)
(* C2  Longest-match-first, as stated: when the PhraseSet holds a phrase   *)
(* and a longer phrase containing it and a text contains the longer        *)
(* phrase, the longer phrase gets its placeholder there and the shorter    *)
(* phrase is never replaced inside an occurrence of the longer one.        *)
(***************************************************************************)
\* the longer phrase with the shorter one replaced inside it by placeholder ph
ReplacedInside(shorter, longer, ph) == Sub(unquoted_pattern(shorter), ph, longer)

C2_LongestMatchFirstAsStated ==
    pc = "done" =>
        \A pr \in NestedPairs : \A j \in DOMAIN assigned :
            (assigned[j].phrase = pr[1] /\ (Occurs(pr[2], sql) \/ Occurs(pr[2], intent))) =>
                /\ pr[2] \in AssignedPhrases
                /\ ~Occurs(ReplacedInside(pr[1], pr[2], assigned[j].placeholder), result.sql)
                /\ ~Occurs(ReplacedInside(pr[1], pr[2], assigned[j].placeholder), result.intent)

(***************************************************************************)
(* C2  amended: whatever the order of the keys, the phrases are tried in   *)
(* descending length, so a longer phrase has had its turn before a phrase  *)
(* it contains is substituted, and a longer phrase that is substituted     *)
(* gets one placeholder written into both strings.                         *)
(***************************************************************************)
C2_LongestFirst ==
    pc # "call" =>
        /\ Len(sorted_phrases) = Len(value_phrases)
        /\ { sorted_phrases[k] : k \in DOMAIN sorted_phrases } = Keys
        /\ \A i, j \in DOMAIN sorted_phrases :
               i < j => Len(sorted_phrases[i]) >= Len(sorted_phrases[j])
        /\ \A pr \in NestedPairs :
               /\ pr[1] \in AssignedPhrases => PosOf(pr[2]) < PosOf(pr[1])
               /\ (JustSubstituted /\ LastAssigned.phrase = pr[2]) =>
                      /\ Occurs(LastAssigned.placeholder, psql)
                      /\ Occurs(LastAssigned.placeholder, pintent)
                      /\ pr[1] \notin AssignedPhrases

C2_Witness ==
    /\ pc = "done"
    /\ value_phrases = <<BB, AA \o SP \o BB>>
    /\ sql = search_phrase_quoted(AA \o SP \o BB)
    /\ AssignedPhrases = {AA \o SP \o BB}
    /\ result.sql = <<"$", "1">>

(***************************************************************************)
(* C3  Dense numbering: the counter is one more than the number of phrases *)
(* substituted so far, and for postgresql the j-th substituted phrase got  *)
(* the placeholder $j.                                                     *)
(***************************************************************************)
C3_DenseNumbering ==
    pc # "call" =>
        /\ param_index = Len(assigned) + 1
        /\ Len(assigned) <= idx - 1
        /\ db_dialect = POSTGRESQL =>
               \A j \in DOMAIN assigned : IsDollarN(assigned[j].placeholder, j)

\* the first phrase tried was skipped and the second one got $1
C3_Witness ==
    /\ pc = "done"
    /\ db_dialect = POSTGRESQL
    /\ Len(sorted_phrases) = 2
    /\ Len(assigned) = 1
    /\ assigned[1].phrase = sorted_phrases[2]
    /\ assigned[1].placeholder = <<"$", "1">>

(***************************************************************************)
(* C4  Idempotence, as stated: a further call on the returned sql and      *)
(* intent returns its inputs unchanged.                                    *)
(***************************************************************************)
C4_IdempotentAsStated ==
    (pc = "done" /\ calls >= 2) => (result.sql = sql /\ result.intent = intent)

(***************************************************************************)
(* C4  amended: the second call is made on what the first call returned,   *)
(* and when no phrase of the PhraseSet is still present in both returned   *)
(* strings it returns them unchanged.                                      *)
(***************************************************************************)
C4_IdempotentWhenNoPhraseLeft ==
    /\ (calls = 2 /\ pc # "call") =>
           (sql = first_call.result.sql /\ intent = first_call.result.intent)
    /\ (pc = "done" /\ calls >= 2 /\ NoPhraseInBoth(sql, intent)) =>
           (result.sql = sql /\ result.intent = intent)

\* the first call substituted a phrase and the second call changed nothing
C4_Witness ==
    /\ pc = "done"
    /\ calls = 2
    /\ first_call.result.sql # first_call.sql
    /\ first_call.result.intent # first_call.intent
    /\ NoPhraseInBoth(sql, intent)
    /\ result.sql = first_call.result.sql
    /\ result.intent = first_call.result.intent

(***************************************************************************)
(* C5  Positional order, as stated: of two phrases present in both strings *)
(* the one met first in the text gets $1.                                  *)
(***************************************************************************)
C5_TextOrderAsStated ==
    (pc = "done" /\ db_dialect = POSTGRESQL /\ Len(assigned) = 2) =>
        \A p, q \in AssignedPhrases :
            ( /\ Occurs(p, sql) /\ Occurs(p, intent) /\ Occurs(q, sql) /\ Occurs(q, intent)
              /\ FirstAt(p, sql) < FirstAt(q, sql)
              /\ FirstAt(p, intent) < FirstAt(q, intent) )
            => assigned[1].phrase = p

(***************************************************************************)
(* C5  amended: for postgresql two substituted phrases get $1 and $2 in    *)
(* the order in which they are tried: the longer phrase first, phrases of  *)
(* equal length in the order of the keys of the PhraseSet; each            *)
(* placeholder is written into both strings.                               *)
(***************************************************************************)
C5_ProcessingOrder ==
    (pc # "call" /\ db_dialect = POSTGRESQL) =>
        /\ \A i, j \in DOMAIN assigned :
               i < j =>
                   /\ IsDollarN(assigned[i].placeholder, i)
                   /\ IsDollarN(assigned[j].placeholder, j)
                   /\ \/ Len(assigned[i].phrase) > Len(assigned[j].phrase)
                      \/ /\ Len(assigned[i].phrase) = Len(assigned[j].phrase)
                         /\ KeyIndex(assigned[i].phrase) < KeyIndex(assigned[j].phrase)
        /\ JustSubstituted =>
               /\ Occurs(LastAssigned.placeholder, psql)
               /\ Occurs(LastAssigned.placeholder, pintent)

\* two phrases of equal length: the one listed first gets $1 although it is met
\* second in both texts
C5_Witness ==
    /\ pc = "done"
    /\ calls = 1
    /\ db_dialect = POSTGRESQL
    /\ value_phrases = <<BB, AA>>
    /\ Len(assigned) = 2
    /\ assigned[1].phrase = BB
    /\ FirstAt(AA, sql) < FirstAt(BB, sql)
    /\ FirstAt(AA, intent) < FirstAt(BB, intent)
    /\ result.intent = <<"$", "2", " ", "$", "1">>

(***************************************************************************)
(* C6  Non-positional placeholder: for mysql and googlesql every           *)
(* substituted phrase is replaced by ? in both strings and no $n token is  *)
(* produced.                                                               *)
(***************************************************************************)
C6_GenericPlaceholder ==
    (pc # "call" /\ db_dialect # POSTGRESQL) =>
        /\ \A j \in DOMAIN assigned : assigned[j].placeholder = <<"?">>
        /\ DollarTokens(psql) <= DollarTokens(sql)
        /\ DollarTokens(pintent) <= DollarTokens(intent)
        /\ JustSubstituted => (Occurs(<<"?">>, psql) /\ Occurs(<<"?">>, pintent))
        /\ pc = "done" => (DollarTokens(result.sql) <= DollarTokens(sql)
                           /\ DollarTokens(result.intent) <= DollarTokens(intent))

\* two phrases substituted, the counter stands at 3, both placeholders are ?
C6_Witness ==
    /\ pc = "done"
    /\ db_dialect = GOOGLESQL
    /\ Len(assigned) = 2
    /\ param_index = 3
    /\ result.intent = <<"?", " ", "?">>

Resolved ==
    /\ request.fn = "get_match_template"
    /\ Lower(request.dialect) \in Dialect
    /\ MATCH_CONFIG[Lower(request.dialect)] # NoConfig

RequestConfig == MATCH_CONFIG[Lower(request.dialect)]

\* the versions the configuration lists as supported
Listed(config) == { config.supported_versions[i] : i \in DOMAIN config.supported_versions }

\* the version passes the check of lines 116-122
Accepted(config, version) ==
    ~(Truthy(version) /\ Truthy(config.min_version)
        /\ ~is_version_supported(version, config.min_version))

\* overrides[version] contains function_name
Overridden(config, version, function_name) ==
    /\ DictHas(config.overrides, version)
    /\ DictHas(DictGet(config.overrides, version, EmptyDict), function_name)

\* C8 (as stated): a version that is provided and is not one of the supported
\* versions the dialect's configuration lists makes get_match_template fail with
\* an error that reports the version and the supported set; the defaults record
\* is never returned for it.
C8_VersionRejection ==
    ( /\ Resolved
      /\ Truthy(request.version)
      /\ RequestConfig.supported_versions # NoVersions
      /\ request.version \notin Listed(RequestConfig) )
    => /\ ~outcome.ok
       /\ "version" \in DOMAIN outcome.values
       /\ "supported_versions" \in DOMAIN outcome.values

\* C9: when a version is provided that passes the version check and
\* overrides[version] contains function_name, get_match_template returns the
\* override record, not the defaults record of the same name.
C9_OverridePrecedence ==
    ( /\ Resolved
      /\ Truthy(request.version)
      /\ Accepted(RequestConfig, request.version)
      /\ Overridden(RequestConfig, request.version, request.function_name) )
    => /\ outcome.ok
       /\ outcome.value = DictGet(DictGet(RequestConfig.overrides, request.version, EmptyDict),
                                  request.function_name, NoTemplate)

\* an override was returned for a function that also has a different defaults record
C9_Witness ==
    /\ Resolved
    /\ Truthy(request.version)
    /\ request.version \in Listed(RequestConfig)
    /\ Overridden(RequestConfig, request.version, request.function_name)
    /\ DictHas(RequestConfig.defaults, request.function_name)
    /\ outcome.ok
    /\ outcome.value = OVERRIDE_SQL_15
    /\ outcome.value # DictGet(RequestConfig.defaults, request.function_name, NoTemplate)

\* C10: when a version is provided that passes the version check and overrides
\* has no entry for it, or an entry that lacks function_name, get_match_template
\* returns defaults[function_name]; and resolution succeeds for every function
\* of defaults whatever the overrides cover.
C10_DefaultFallback ==
    ( /\ Resolved
      /\ Accepted(RequestConfig, request.version)
      /\ DictHas(RequestConfig.defaults, request.function_name) )
    => /\ outcome.ok
       /\ ( Truthy(request.version)
             /\ ~Overridden(RequestConfig, request.version, request.function_name) )
          => outcome.value = DictGet(RequestConfig.defaults, request.function_name, NoTemplate)

\* the defaults record was returned for a version whose overrides lack the
\* function while the overrides of another version have it
C10_Witness ==
    /\ Resolved
    /\ Truthy(request.version)
    /\ DictHas(RequestConfig.overrides, request.version)
    /\ ~Overridden(RequestConfig, request.version, request.function_name)
    /\ \E i \in DOMAIN RequestConfig.overrides :
          DictHas(RequestConfig.overrides[i][2], request.function_name)
    /\ outcome.ok
    /\ outcome.value = DictGet(RequestConfig.defaults, request.function_name, NoTemplate)

\* some version's overrides hold a record for function_name
OverriddenSomewhere(config, function_name) ==
    \E i \in DOMAIN config.overrides : DictHas(config.overrides[i][2], function_name)

\* C11: when version is None or empty, get_match_template makes no version check
\* and answers from defaults alone: it returns defaults[function_name] when
\* defaults has the function and fails with "not found" otherwise, whatever the
\* overrides and min_version are.
C11_AbsentVersion ==
    (Resolved /\ ~Truthy(request.version)) =>
        IF DictHas(RequestConfig.defaults, request.function_name)
        THEN /\ outcome.ok
             /\ outcome.value = DictGet(RequestConfig.defaults, request.function_name, NoTemplate)
        ELSE /\ ~outcome.ok
             /\ "function_name" \in DOMAIN outcome.values

\* no version given, the function is overridden for some version and has a
\* different defaults record: the defaults record came back
C11_Witness ==
    /\ Resolved
    /\ ~Truthy(request.version)
    /\ OverriddenSomewhere(RequestConfig, request.function_name)
    /\ outcome.ok
    /\ outcome.value = DEFAULT_SQL
    /\ \E i \in DOMAIN RequestConfig.overrides :
          DictGet(RequestConfig.overrides[i][2], request.function_name, NoTemplate)
              \notin {NoTemplate, DEFAULT_SQL}

\* d is a member of Dialect up to the case of its letters
IsDialectName(d) ==
    \E e \in Dialect :
        /\ Len(e) = Len(d)
        /\ \A i \in DOMAIN d : LowerChar(d[i]) = e[i]

\* the call raised the error of an unknown dialect
DialectError == ~outcome.ok /\ "supported" \in DOMAIN outcome.values

\* C12: get_match_template and get_available_functions compare the dialect with
\* the Dialect enumeration without regard to case; a dialect outside it makes the
\* call fail with an error that reports the value passed and all supported
\* dialects, and a dialect inside it, however cased, never gets that error.
C12_UnknownDialect ==
    request.fn \in {"get_match_template", "get_available_functions"} =>
        IF IsDialectName(request.dialect)
        THEN ~DialectError
        ELSE /\ DialectError
             /\ outcome.values.dialect = request.dialect
             /\ outcome.values.supported = Dialect

\* mysql was rejected by get_available_functions with the list of dialects
C12_Witness ==
    /\ request.fn = "get_available_functions"
    /\ request.dialect = <<"m", "y", "s", "q", "l">>
    /\ ~outcome.ok
    /\ outcome.values.dialect = request.dialect
    /\ outcome.values.supported = {Dialect_POSTGRESQL}

\* the record get_match_template is to find for the request: that of
\* overrides[version] if it has one, else that of defaults, else none
Stored(config, version, function_name) ==
    IF Truthy(version) /\ Overridden(config, version, function_name)
    THEN DictGet(DictGet(config.overrides, version, EmptyDict), function_name, NoTemplate)
    ELSE DictGet(config.defaults, function_name, NoTemplate)

\* C13: once dialect and version are accepted, a function_name found neither in
\* overrides[version] nor in defaults makes get_match_template fail with an error
\* that reports the name and the function names of defaults; any other
\* function_name gets the whole record stored for it (sql_template and
\* description), never an empty or partial one.
C13_UnknownFunction ==
    (Resolved /\ Accepted(RequestConfig, request.version)) =>
        IF Stored(RequestConfig, request.version, request.function_name) = NoTemplate
        THEN /\ ~outcome.ok
             /\ "function_name" \in DOMAIN outcome.values
             /\ outcome.values.function_name = request.function_name
             /\ outcome.values.supported_templates = DictKeys(RequestConfig.defaults)
        ELSE /\ outcome.ok
             /\ DOMAIN outcome.value = {"sql_template", "description"}
             /\ outcome.value = Stored(RequestConfig, request.version, request.function_name)

\* a name that only another version overrides was asked for with a version
\* given: the error lists the two functions of defaults
C13_Witness ==
    /\ Resolved
    /\ Truthy(request.version)
    /\ Accepted(RequestConfig, request.version)
    /\ request.function_name = "EXTRA_FUNC"
    /\ OverriddenSomewhere(RequestConfig, request.function_name)
    /\ ~outcome.ok
    /\ outcome.values.function_name = "EXTRA_FUNC"
    /\ outcome.values.supported_templates = <<"TEST_FUNC", "ONLY_DEFAULT">>

\* get_match_template, asked for function_name with the dialect and version of
\* the request, fails before it looks the function up
FailsBeforeLookup(function_name) ==
    \E g \in {get_match_template(MATCH_CONFIG, request.dialect, function_name, request.version)} :
        ~g.ok /\ "function_name" \notin DOMAIN g.values

ListedNames ==
    \E l \in {get_available_functions(MATCH_CONFIG, request.dialect, request.version)} :
        l.ok /\ \E i \in DOMAIN l.value : l.value[i] = request.function_name

\* the registry invariant: every name an override gives is a name of defaults
OverridesWithinDefaults(config) ==
    \A i \in DOMAIN config.overrides :
        \A k \in DOMAIN config.overrides[i][2] :
            DictHas(config.defaults, config.overrides[i][2][k][1])

\* C15 (as stated): every function name for which get_match_template succeeds
\* appears in defaults and is listed by get_available_functions.
C15_ResolvableInDefaultsAsStated ==
    (Resolved /\ outcome.ok) =>
        (DictHas(RequestConfig.defaults, request.function_name) /\ ListedNames)

\* C15 (amended): get_match_template succeeds exactly for the names of defaults
\* and the names overrides[version] gives; when the registry keeps every
\* overridden name within defaults, as the shipped one does, the resolvable
\* names are exactly those get_available_functions lists.
C15_ResolvableNames ==
    (Resolved /\ Accepted(RequestConfig, request.version)) =>
        /\ outcome.ok <=>
               \/ DictHas(RequestConfig.defaults, request.function_name)
               \/ ( Truthy(request.version)
                    /\ Overridden(RequestConfig, request.version, request.function_name) )
        /\ OverridesWithinDefaults(RequestConfig) => (outcome.ok <=> ListedNames)
        /\ ~patched => (RequestConfig = RealConfig /\ OverridesWithinDefaults(RequestConfig))

\* a name that defaults lacks was resolved from the overrides of the version
C15_Witness ==
    /\ Resolved
    /\ patched
    /\ ~DictHas(RequestConfig.defaults, request.function_name)
    /\ Overridden(RequestConfig, request.version, request.function_name)
    /\ ~ListedNames
    /\ outcome.ok

(***************************************************************************)
(* The generators: vocabulary                                              *)
(***************************************************************************)
\* the manifest loop has just executed an iteration
JustReplaced == mpc = "manifest" /\ midx >= 2

LastReplaced == replaced[Len(replaced)]

\* the first type tag of the phrase, "value" for a phrase without tags
FirstTag(phrase) ==
    CASE phrase = AA -> CITY
      [] phrase = BB -> PERSON
      [] phrase = D1 -> CURRENCY
      [] OTHER -> VALUE

\* C16: the manifest starts as the question; the detected phrases are taken in
\* descending length and every occurrence of each is replaced by "a given
\* <first type tag>", whether or not the phrase occurs in the sql; the call of
\* parameterize_sql_and_intent leaves the manifest as the loop made it; with an
\* empty PhraseSet the manifest is the question.
C16_Manifest ==
    mpc \in {"manifest", "assembled"} =>
        /\ Len(manifest_phrases) = Len(value_phrases)
        /\ { manifest_phrases[k] : k \in DOMAIN manifest_phrases } = Keys
        /\ \A i, j \in DOMAIN manifest_phrases :
               i < j => Len(manifest_phrases[i]) >= Len(manifest_phrases[j])
        /\ Len(replaced) = midx - 1
        /\ \A j \in DOMAIN replaced :
               /\ replaced[j].phrase = manifest_phrases[j]
               /\ replaced[j].with = AGiven(FirstTag(replaced[j].phrase))
               /\ replaced[j].before = (IF j = 1 THEN question ELSE replaced[j - 1].after)
               /\ IF Occurs(replaced[j].phrase, replaced[j].before)
                  THEN /\ Occurs(replaced[j].with, replaced[j].after)
                       /\ replaced[j].after # replaced[j].before
                  ELSE replaced[j].after = replaced[j].before
        /\ manifest = (IF replaced = <<>> THEN question ELSE LastReplaced.after)
        /\ value_phrases = <<>> => manifest = question
        /\ mpc = "assembled" =>
               /\ midx = Len(value_phrases) + 1
               /\ result = parameterize_sql_and_intent(value_phrases, sql, intent, db_dialect)

\* a phrase with two type tags stands in the question and not in the sql: the
\* manifest names its first tag and the parameterizer changed nothing
C16_Witness ==
    /\ mpc = "assembled"
    /\ AA \in Keys
    /\ Occurs(AA, question)
    /\ ~Occurs(AA, sql)
    /\ Occurs(AGiven(CITY), manifest)
    /\ ~Occurs(AA, manifest)
    /\ intent = question
    /\ result.intent = intent
    /\ result.sql = sql

(***************************************************************************)
(* The parameterizer under a change of the key order                       *)
(***************************************************************************)
\* the PhraseSets with the keys of value_phrases, in every order
KeyOrders ==
    { q \in [DOMAIN value_phrases -> Keys] : IsInjective(q) }

\* no two keys have the same length
DistinctLengths ==
    \A i, j \in DOMAIN value_phrases :
        i # j => Len(value_phrases[i]) # Len(value_phrases[j])

\* C17 (as stated): a PhraseSet with the same keys in another order gives the
\* same sql and intent for the same inputs and dialect.
C17_KeyOrderIrrelevantAsStated ==
    (pc = "done" /\ calls = 1) =>
        \A q \in KeyOrders :
            parameterize_sql_and_intent(q, sql, intent, db_dialect) = result

\* C17 (amended): when no two keys of the PhraseSet have the same length, the
\* same keys in any order give the same sql and intent for the same inputs and
\* dialect.
C17_KeyOrderOfDistinctLengths ==
    (pc = "done" /\ calls = 1 /\ DistinctLengths) =>
        \A q \in KeyOrders :
            parameterize_sql_and_intent(q, sql, intent, db_dialect) = result

\* the shorter key is listed first and the longer phrase was substituted whole
C17_Witness ==
    /\ pc = "done"
    /\ calls = 1
    /\ value_phrases = <<AA, AA \o SP \o BB>>
    /\ DistinctLengths
    /\ intent = AA \o SP \o BB
    /\ Len(assigned) = 1
    /\ result.intent = Placeholder(db_dialect, 1)
    /\ parameterize_sql_and_intent(<<AA \o SP \o BB, AA>>, sql, intent, db_dialect) = result

(***************************************************************************)
(* Several callers at once: properties                                     *)
(***************************************************************************)
\* what the call of frame f returns when it runs alone
Alone(f) ==
    CASE f.args.op = "parameterize_sql_and_intent" ->
             parameterize_sql_and_intent(f.args.value_phrases, f.args.sql, f.args.intent,
                                         f.args.db_dialect)
      [] f.args.op = "get_match_template" ->
             get_match_template([d \in Dialect |-> RealConfig], f.args.dialect,
                                f.args.function_name, f.args.version)
      [] f.args.op = "get_available_functions" ->
             get_available_functions([d \in Dialect |-> RealConfig], f.args.dialect,
                                     f.args.version)

\* C18: however the calls of several callers interleave, every call returns
\* what it returns when it runs alone, and every call of
\* parameterize_sql_and_intent numbers its placeholders from its own counter,
\* which starts at 1; the calls leave the registry as it is.
C18_CallsIsolated ==
    /\ MATCH_CONFIG = [d \in Dialect |-> RealConfig]
    /\ \A c \in Callers :
          /\ frames[c].pc = "loop" =>
                 frames[c].param_index = Len(frames[c].assigned) + 1
          /\ frames[c].pc = "done" =>
                 /\ frames[c].result = Alone(frames[c])
                 /\ ( /\ frames[c].args.op = "parameterize_sql_and_intent"
                      /\ frames[c].args.db_dialect = POSTGRESQL )
                    => \A j \in DOMAIN frames[c].assigned :
                           IsDollarN(frames[c].assigned[j].placeholder, j)

\* two calls of parameterize_sql_and_intent ran interleaved and each numbered
\* its two phrases $1 and $2
C18_Witness ==
    /\ \A c \in {1, 2} :
          /\ frames[c].pc = "done"
          /\ frames[c].args.op = "parameterize_sql_and_intent"
          /\ frames[c].interleaved
          /\ Len(frames[c].assigned) = 2
          /\ frames[c].assigned[1].placeholder = <<"$", "1">>
          /\ frames[c].assigned[2].placeholder = <<"$", "2">>
    /\ frames[1].args # frames[2].args

(***************************************************************************)
(* The registry replaced and restored                                      *)
(***************************************************************************)
\* C19: whatever replacements and restorations of the registry came before, a
\* call of get_match_template or get_available_functions answers from the
\* configuration in place when it is made: the version is checked against its
\* min_version, the record returned is the one it stores, the names listed or
\* reported are those of its defaults.
C19_NoStaleView ==
    ( request.fn \in {"get_match_template", "get_available_functions"}
      /\ IsDialectName(request.dialect) ) =>
        \E config \in {MATCH_CONFIG[Lower(request.dialect)]} :
            IF config = NoConfig
            THEN IF request.fn = "get_match_template"
                 THEN ~outcome.ok /\ DOMAIN outcome.values = {"dialect"}
                 ELSE outcome.ok /\ outcome.value = <<>>
            ELSE IF ~Accepted(config, request.version)
            THEN /\ ~outcome.ok
                 /\ "min_version" \in DOMAIN outcome.values
                 /\ outcome.values.min_version = config.min_version
            ELSE IF request.fn = "get_available_functions"
            THEN outcome.ok /\ outcome.value = DictKeys(config.defaults)
            ELSE IF outcome.ok
            THEN outcome.value = Stored(config, request.version, request.function_name)
            ELSE /\ "supported_templates" \in DOMAIN outcome.values
                 /\ outcome.values.supported_templates = DictKeys(config.defaults)
                 /\ Stored(config, request.version, request.function_name) = NoTemplate

\* the registry was replaced and put back, and a name that only the replacement
\* could resolve is refused with the names of the shipped defaults
C19_Witness ==
    /\ restored
    /\ ~patched
    /\ request.fn = "get_match_template"
    /\ request.function_name = "TEST_FUNC"
    /\ request.version = V15
    /\ IsDialectName(request.dialect)
    /\ ~outcome.ok
    /\ "supported_templates" \in DOMAIN outcome.values
    /\ outcome.values.supported_templates =
           <<"EXACT_MATCH_STRINGS", "TRIGRAM_STRING_MATCH", "SEMANTIC_SIMILARITY_GEMINI">>

(***************************************************************************)
(* generate_value_searches: properties                                     *)
(***************************************************************************)
\* item i cannot be turned into a value search: a required field is missing or
\* its template is not resolved
Unusable(i) ==
    \/ ~HasRequiredFields(inputs[i])
    \/ ~get_match_template(MATCH_CONFIG, db_engine, inputs[i].match_function, db_version).ok

\* C20 (as stated): when an item of the list lacks a required field or its
\* template is not resolved (unsupported dialect, unknown match function,
\* unsupported version), generate_value_searches returns an object with an
\* "error" key and not a ContextSet.
C20_NoSilentDrop ==
    ( /\ spc = "returned"
      /\ inputs # InvalidJson
      /\ \E i \in DOMAIN inputs : Unusable(i) )
    => "error" \in DOMAIN returned

(***************************************************************************)
(* attach_context_set: properties                                          *)
(***************************************************************************)
\* the items a document holds in the list `name` of its ContextSet; the value
\* indices are the items under the key value_indices
ListOf(document, name) ==
    LET v == IF name = "value_indices"
             THEN FieldValue(existing_content_dict(document), <<"value_indices">>)
             ELSE ContextSet(existing_content_dict(document))[name]
    IN  IF v.null THEN <<>> ELSE v.items

\* the items of the list `name` of the first n attached documents, in call order
RECURSIVE AttachedItems(_, _)
AttachedItems(name, n) ==
    IF n = 0 THEN <<>>
    ELSE AttachedItems(name, n - 1) \o ListOf(attached[n], name)

ContextLists == {"templates", "facets", "value_searches", "value_indices"}

\* C21 (as stated): after any sequence of attach_context_set calls on a file,
\* each list of the stored ContextSet equals the list originally in the file
\* followed by the items of every attached ContextSet in call order, and what was
\* read under the legacy keys is stored under facets / sql_snippet.
C21_AppendOnly ==
    attached # <<>> =>
        /\ \A name \in ContextLists :
               ListOf(file, name) = ListOf(original, name) \o AttachedItems(name, Len(attached))
        /\ "fragments" \notin DOMAIN file

(***************************************************************************)
(* The value-index resolver: properties                                    *)
(***************************************************************************)
\* the last call got past the dialect checks: the dialect is a member of Dialect
\* and has templates registered
IndexAsked ==
    /\ index_request.fn = "get_match_template"
    /\ IsDialectName(index_request.dialect)
    /\ MATCH_TEMPLATES[Lower(index_request.dialect)] # EmptyDict

IndexConfig == MATCH_TEMPLATES[Lower(index_request.dialect)]

\* the call failed with "Version '<v>' not found", reporting v and the versions
\* registered
VersionNotFound(v) ==
    /\ ~index_outcome.ok
    /\ "available" \in DOMAIN index_outcome.values
    /\ index_outcome.values.version = v
    /\ index_outcome.values.available = DictKeys(IndexConfig)

\* the call returned the template registered for the function under version v
FoundUnder(v) ==
    /\ index_outcome.ok
    /\ DictHas(IndexConfig, v)
    /\ DictHas(DictGet(IndexConfig, v, EmptyDict), index_request.function_name)
    /\ index_outcome.value =
           DictGet(DictGet(IndexConfig, v, EmptyDict), index_request.function_name, NoTemplate)

\* the strict lookup, for the versions in `defaulted` standing for the default one
StrictLookup(defaulted) ==
    IndexAsked =>
        LET v == index_request.version
            target == IF v \in defaulted THEN DEFAULT_VERSIONS[Lower(index_request.dialect)]
                      ELSE v
        IN  /\ ~DictHas(IndexConfig, target) => VersionNotFound(target)
            /\ index_outcome.ok => FoundUnder(target)

\* C22 (as stated): an absent, empty or "default" version is looked up as the
\* dialect's default version; any other version without a registered entry fails
\* with "Version '<v>' not found" listing the available versions, and no call
\* returns the templates of another version than the one looked up.
C22_StrictVersionAsStated == StrictLookup({None, <<>>, DefaultWord})

\* C22 (amended): as stated, with "default" recognised whatever its letter case.
C22_StrictVersion ==
    StrictLookup({v \in IndexVersionArgs : ~Truthy(v) \/ Lower(v) = DefaultWord})

\* a version that is not registered was refused, by its own name
C22_Witness ==
    /\ IndexAsked
    /\ index_request.version = V999_0
    /\ VersionNotFound(V999_0)
    /\ DictHas(IndexConfig, V16)

(***************************************************************************)
(* The generative-model client: properties                                 *)
(***************************************************************************)
\* the client of the running coroutine has had generate_content called
Generated == client.created /\ client.generate_content = 1

\* C23: once the client of generate_sql_pairs_from_schema, extract_value_phrases
\* or bootstrap_context has been created and generate_content called, its
\* asynchronous close is eventually awaited, exactly once and never before the
\* generate_content call, whether the response has text, has none or the call
\* failed; a coroutine never ends with its client not closed or closed twice.
C23_ClientReleased ==
    /\ [](client.created => /\ client.aclose <= 1
                            /\ (client.aclose = 1 => client.generate_content = 1))
    /\ [](\A i \in DOMAIN released : released[i].aclose = 1)
    /\ (Generated ~> (client.created /\ client.aclose = 1))

\* a coroutine whose model call failed has ended, and one whose response had no
\* text
C23_Witness ==
    /\ \E i \in DOMAIN released :
           released[i].response = "failure" /\ released[i].result = "raised"
    /\ \E i \in DOMAIN released :
           released[i].response = "empty" /\ released[i].result = "returned"

(***************************************************************************)
(* The substitution loop: further properties                               *)
(***************************************************************************)
\* the four (sql pattern, intent pattern) pairs of the chain, in its order
PatternPairs(value) ==
    << <<quoted_pattern(value), quoted_pattern(value)>>,
       <<quoted_pattern(value), unquoted_pattern(value)>>,
       <<unquoted_pattern(value), quoted_pattern(value)>>,
       <<unquoted_pattern(value), unquoted_pattern(value)>> >>

\* the pairs whose two patterns match s and t at the same time
MatchingPairs(value, s, t) ==
    { k \in 1..4 : Search(PatternPairs(value)[k][1], s) /\ Search(PatternPairs(value)[k][2], t) }

\* a step of the loop: one phrase has had its iteration
LoopStep == pc = "loop" /\ idx' = idx + 1

\* C24: in every iteration the first of the four conditions (both quoted,
\* quoted sql / unquoted intent, unquoted sql / quoted intent, both unquoted)
\* whose two patterns match at the same time is the only one applied: each string
\* becomes itself with all matches of its pattern of that pair replaced by the
\* placeholder; when no pair matches, both strings are left as they are.
C24_PriorityChain ==
    [][ LoopStep =>
          LET value == sorted_phrases[idx]
              matching == MatchingPairs(value, psql, pintent)
              placeholder == Placeholder(db_dialect, param_index)
          IN  IF matching = {}
              THEN psql' = psql /\ pintent' = pintent /\ assigned' = assigned
              ELSE LET k == CHOOSE m \in matching : \A n \in matching : m <= n
                   IN  /\ psql' = Sub(PatternPairs(value)[k][1], placeholder, psql)
                       /\ pintent' = Sub(PatternPairs(value)[k][2], placeholder, pintent)
                       /\ assigned'[Len(assigned')].cond = k ]_vars

\* the second condition was applied although the phrase was also written unquoted
\* in the sql, and the unquoted occurrence is still there
C24_Witness ==
    /\ JustSubstituted
    /\ LastAssigned.cond = 2
    /\ Search(unquoted_pattern(LastAssigned.phrase), psql)
    /\ Occurs(LastAssigned.placeholder, psql)

\* number of places at which p is written in t
Occurrences(p, t) == Cardinality({ i \in 1..Len(t) : IsAt(p, t, i) })

\* C25 (as stated): in every iteration of the loop, for every dialect, each
\* placeholder written for an earlier phrase is still in place in sql and in
\* intent after the substitution of the current phrase, and neither pattern of
\* the current phrase matches at a place that comes right after a "$".
C25_PlaceholdersKept ==
    [][ LoopStep =>
          /\ \A j \in DOMAIN assigned :
                 /\ Occurrences(assigned[j].placeholder, psql')
                        >= Occurrences(assigned[j].placeholder, psql)
                 /\ Occurrences(assigned[j].placeholder, pintent')
                        >= Occurrences(assigned[j].placeholder, pintent)
          /\ \A pat \in {quoted_pattern(sorted_phrases[idx]),
                         unquoted_pattern(sorted_phrases[idx])} :
                 \A t \in {psql, pintent} : \A i \in 2..Len(t) :
                     MatchAt(pat, t, i) => t[i - 1] # "$" ]_vars

\* the texts a substituted phrase is replaced as: the phrase, and the phrase
\* between its two single quotes
ReplacedForms == AssignedPhrases \cup { search_phrase_quoted(p) : p \in AssignedPhrases }

AssignedPlaceholders == { assigned[j].placeholder : j \in DOMAIN assigned }

\* r is s with some occurrences of substituted phrases replaced by placeholders
\* and every other character kept, in order (s from position i, r from position k)
RECURSIVE DiffersOnlyAtPhrases(_, _, _, _)
DiffersOnlyAtPhrases(s, i, r, k) ==
    IF i > Len(s) THEN k > Len(r)
    ELSE \/ /\ k <= Len(r)
            /\ s[i] = r[k]
            /\ DiffersOnlyAtPhrases(s, i + 1, r, k + 1)
         \/ \E f \in ReplacedForms, ph \in AssignedPlaceholders :
                /\ IsAt(f, s, i)
                /\ IsAt(ph, r, k)
                /\ DiffersOnlyAtPhrases(s, i + Len(f), r, k + Len(ph))

\* C26: the sql and the intent returned differ from the arguments only where a
\* substituted phrase (with its two quotes, for the quoted pattern) was written,
\* a placeholder standing there instead; every other character is kept in its
\* order; the arguments themselves are what they were when the call was entered.
C26_UnchangedElsewhere ==
    /\ [](pc = "done" =>
             /\ DiffersOnlyAtPhrases(sql, 1, result.sql, 1)
             /\ DiffersOnlyAtPhrases(intent, 1, result.intent, 1))
    /\ [][pc = "loop" => (sql' = sql /\ intent' = intent)]_vars

\* a quoted phrase was substituted next to text that no phrase of the call names
C26_Witness ==
    /\ pc = "done"
    /\ calls = 1
    /\ \E j \in DOMAIN assigned : assigned[j].cond = 1
    /\ BB \notin AssignedPhrases
    /\ Occurs(BB, sql)
    /\ Occurs(BB, result.sql)
    /\ result.sql # sql

(***************************************************************************)
(* The resolver: further properties                                        *)
(***************************************************************************)
\* a step that is a call of get_match_template or get_available_functions
ResolverCall == request'.fn \in {"get_match_template", "get_available_functions"}

\* C27: no call of get_match_template or get_available_functions, whether it
\* returns or raises, changes the registry: the versions, defaults and
\* overrides of every dialect are after the call what they were before it.
C27_RegistryReadOnly ==
    [][ResolverCall => MATCH_CONFIG' = MATCH_CONFIG]_vars

\* a call has returned the override of a function that defaults has too
C27_Witness ==
    /\ Resolved
    /\ outcome.ok
    /\ Overridden(RequestConfig, request.version, request.function_name)
    /\ DictHas(RequestConfig.defaults, request.function_name)
    /\ outcome.value # DictGet(RequestConfig.defaults, request.function_name, NoTemplate)

\* the version of the request is not one the configuration supports: it is not in
\* the supported set, or it does not pass the check against the minimum version
UnsupportedVersion ==
    /\ Truthy(request.version)
    /\ \/ /\ RequestConfig.supported_versions # NoVersions
          /\ request.version \notin Listed(RequestConfig)
       \/ ~Accepted(RequestConfig, request.version)

VersionError == ~outcome.ok /\ "version" \in DOMAIN outcome.values

FunctionError == ~outcome.ok /\ "function_name" \in DOMAIN outcome.values

\* C28 (as stated): get_match_template checks the dialect, then the version, then
\* the function name: an invalid dialect gets the dialect error whatever the
\* other arguments; with a valid dialect an unsupported version gets the version
\* error whether or not function_name exists; the function error is raised only
\* when dialect and version are valid.
C28_ValidationOrder ==
    request.fn = "get_match_template" =>
        /\ ~IsDialectName(request.dialect) => DialectError
        /\ (Resolved /\ UnsupportedVersion) => VersionError
        /\ FunctionError => (Resolved /\ ~UnsupportedVersion)

(***************************************************************************)
(* _is_version_supported: properties                                       *)
(***************************************************************************)
\* the parts of v between its dots are all written in decimal digits
AllIntegers(v) ==
    /\ v # <<>>
    /\ v[1] # "." /\ v[Len(v)] # "."
    /\ \A i \in DOMAIN v : v[i] \in DigitChars \cup {"."}
    /\ \A i \in 1..(Len(v) - 1) : ~(v[i] = "." /\ v[i + 1] = ".")

\* the integers written between the dots of v
Numbers(v) == [i \in DOMAIN Split(v) |-> ParseNat(Split(v)[i])]

\* a >= b in the order of tuples: b is the beginning of a, or a is greater at the
\* first place where they differ
AtLeast(a, b) ==
    \/ /\ Len(b) <= Len(a)
       /\ \A i \in DOMAIN b : a[i] = b[i]
    \/ \E k \in DOMAIN a \cap DOMAIN b :
           /\ \A i \in 1..(k - 1) : a[i] = b[i]
           /\ a[k] > b[k]

\* C29: _is_version_supported returns, and what it returns is true exactly when
\* version and minimum are both dot-separated integers and the tuple of the
\* version is at least the tuple of the minimum; a version with a part that is
\* not an integer gets False, not an exception.
C29_VersionComparison ==
    request.fn = "_is_version_supported" =>
        /\ outcome.ok
        /\ outcome.value =
               ( /\ AllIntegers(request.version)
                 /\ AllIntegers(request.min_version)
                 /\ AtLeast(Numbers(request.version), Numbers(request.min_version)) )

\* 13.10 was accepted against the minimum 13.2
C29_Witness ==
    /\ request.fn = "_is_version_supported"
    /\ request.version = V13_10
    /\ request.min_version = V13_2
    /\ outcome.ok
    /\ outcome.value = TRUE

(***************************************************************************)
(* Alignment of sql and intent                                             *)
(***************************************************************************)
\* the numbers n for which the placeholder $n is written in t
PlaceholderNumbers(t) ==
    { n \in 1..(MaxPhrases + 1) : Occurs(Placeholder(POSTGRESQL, n), t) }

\* the call is for PostgreSQL and its inputs hold no $n token
PlainPostgresCall ==
    /\ db_dialect = POSTGRESQL
    /\ DollarTokens(sql) = 0
    /\ DollarTokens(intent) = 0

\* C30 (as stated): for PostgreSQL and inputs without $n token, after every iteration of the
\* loop the placeholder numbers written in sql are those written in intent, and
\* an iteration that substitutes writes its placeholder into both strings.
C30_Aligned ==
    /\ [](PlainPostgresCall /\ pc \in {"loop", "done"} =>
              PlaceholderNumbers(psql) = PlaceholderNumbers(pintent))
    /\ [][ PlainPostgresCall /\ LoopStep /\ param_index' # param_index =>
              /\ Occurs(Placeholder(POSTGRESQL, param_index), psql')
              /\ Occurs(Placeholder(POSTGRESQL, param_index), pintent') ]_vars

\* two phrases were substituted, and $1 and $2 are in both strings
C30_Witness ==
    /\ PlainPostgresCall
    /\ pc = "done"
    /\ Len(assigned) = 2
    /\ PlaceholderNumbers(psql) = {1, 2}
    /\ PlaceholderNumbers(pintent) = {1, 2}

====
